---- MODULE Spec2Model ----
(***************************************************************************)
(* A model of struct2tensor's expression layer: paths (path.py), the       *)
(* Expression base class with its child cache (expression.py), and the     *)
(* promote, apply_schema and depth_limit expressions (expression_impl/).   *)
(*                                                                         *)
(* Strings are sequences of character codes, so that comparison, printing  *)
(* and parsing of paths are computed character by character.               *)
(***************************************************************************)
EXTENDS Integers, Sequences, FiniteSets, TLC

VARIABLES
  pa, pb, pc,   \* path.py: the Path objects an operation is applied to
  px,           \* path.py: a step handed to Path.get_child
  pres,         \* path.py: what the last Path operation returned
  heap,         \* the Expression objects; an expression's identity is its index
  feats,        \* the schema_pb2.Feature messages
  schema_msg,   \* the schema_pb2.Schema handed to apply_schema
  calls,        \* (expression, name) -> number of _get_child_impl invocations
  first,        \* (expression, name) -> what the first get_child returned
  top,          \* the root expression the client holds
  held,         \* an expression the client got from a lookup on top
  last,         \* the last operation on expressions and what it returned
  nops,         \* the number of operations done
  _NEXT_ANONYMOUS_FIELD,   \* path.py: the global counter of anonymous fields
  threads       \* the threads of the client: where each is in its call

threadVars == <<_NEXT_ANONYMOUS_FIELD, threads>>
pathVars == <<pa, pb, pc, px, pres, threadVars>>
exprVars == <<heap, feats, schema_msg, calls, first, top, held, last, nops,
              threadVars>>
vars == <<pa, pb, pc, px, pres, heap, feats, schema_msg, calls, first, top, held,
          last, nops, _NEXT_ANONYMOUS_FIELD, threads>>

Min(S) == CHOOSE m \in S : \A o \in S : m <= o

(***************************************************************************)
(* path.py: characters and steps                                           *)
(***************************************************************************)
DOT == 46
LPAREN == 40
RPAREN == 41
LBRACK == 91
RBRACK == 93
SLASH == 47
NEWLINE == 10
DIGIT0 == 48

\* _SIMPLE_STEP_REGEX's character class [A-Za-z0-9_\-]
SimpleChars == (48..57) \cup (65..90) \cup (97..122) \cup {95, 45}

\* _EXTENSION_REGEX's character class [A-Za-z0-9_/\-]
ExtensionChars == SimpleChars \cup {SLASH}

\* A step is an AnonymousId (int) or a str.
AnonStep(n) == [anon |-> TRUE, id |-> n, str |-> <<>>]
StrStep(s) == [anon |-> FALSE, id |-> 0, str |-> s]

\* Python's str comparison: by code point, a strict prefix is less.
StrCmp(s, t) ==
  LET n == IF Len(s) < Len(t) THEN Len(s) ELSE Len(t)
      diffs == {i \in 1..n : s[i] # t[i]}
  IN  IF diffs = {}
        THEN (IF Len(s) > Len(t) THEN 1 ELSE IF Len(s) < Len(t) THEN -1 ELSE 0)
        ELSE (IF s[Min(diffs)] > t[Min(diffs)] THEN 1 ELSE -1)

_compare_step_anon_less(a, b) ==
  LET aint == a.anon
      bint == b.anon
  IN  IF aint = bint
        THEN (IF aint
                THEN (IF a.id > b.id THEN 1 ELSE IF a.id < b.id THEN -1 ELSE 0)
                ELSE StrCmp(a.str, b.str))
        ELSE (IF aint THEN -1 ELSE 1)

_compare_step(a, b) ==
  LET aint == a.anon
      bint == b.anon
  IN  IF aint = bint
        THEN (IF aint
                THEN (IF a.id > b.id THEN 1 ELSE IF a.id < b.id THEN -1 ELSE 0)
                ELSE StrCmp(a.str, b.str))
        ELSE (IF aint THEN 1 ELSE -1)

\* Path.__cmp__: the first differing step decides, then the lengths.
__cmp__(self, other) ==
  LET n == IF Len(self) < Len(other) THEN Len(self) ELSE Len(other)
      diffs == {i \in 1..n : _compare_step(self[i], other[i]) # 0}
  IN  IF diffs # {}
        THEN _compare_step(self[Min(diffs)], other[Min(diffs)])
        ELSE (IF Len(self) > Len(other) THEN 1
              ELSE IF Len(self) < Len(other) THEN -1 ELSE 0)

__eq__(self, other) == __cmp__(self, other) = 0
__lt__(self, other) == __cmp__(self, other) < 0
__gt__(self, other) == __cmp__(self, other) > 0

(***************************************************************************)
(* path.py: the step syntax (the three regular expressions)                *)
(***************************************************************************)
\* Length of the longest prefix of s made of characters of cs.
RECURSIVE RunLen(_, _)
RunLen(s, cs) ==
  IF s # <<>> /\ Head(s) \in cs THEN 1 + RunLen(Tail(s), cs) ELSE 0

\* Index of the first occurrence of c in s, 0 when there is none.
FirstIndex(s, c) ==
  LET at == {i \in 1..Len(s) : s[i] = c}
  IN  IF at = {} THEN 0 ELSE Min(at)

\* (?:[A-Za-z0-9_/\-]+\.)*[A-Za-z0-9_/\-]+ matches the whole of s.
RECURSIVE DottedNames(_)
DottedNames(s) ==
  LET k == RunLen(s, ExtensionChars)
  IN  /\ k > 0
      /\ \/ k = Len(s)
         \/ /\ s[k + 1] = DOT
            /\ DottedNames(SubSeq(s, k + 2, Len(s)))

\* Length of the prefix of s that _EXTENSION_REGEX matches, 0 when none.
ExtensionLen(s) ==
  LET close == FirstIndex(s, RPAREN)
  IN  IF s # <<>> /\ s[1] = LPAREN /\ close > 0
         /\ DottedNames(SubSeq(s, 2, close - 1))
        THEN close ELSE 0

\* Length of the prefix of s that _SIMPLE_STEP_REGEX matches (greedy).
SimpleLen(s) == RunLen(s, SimpleChars)

\* Length of the prefix of s that _MAP_INDEXING_STEP_REGEX matches, 0 when none.
MapIndexingLen(s) ==
  LET k == SimpleLen(s)
      close == FirstIndex(s, RBRACK)
  IN  IF k > 0 /\ k < Len(s) /\ s[k + 1] = LBRACK /\ close > 0
        THEN close ELSE 0

\* "$" matches at the end of s, or before a newline that ends s.
AtDollar(s, n) ==
  \/ n = Len(s)
  \/ n + 1 = Len(s) /\ s[n + 1] = NEWLINE

is_valid_step(step_str) ==
  \/ ExtensionLen(step_str) > 0 /\ AtDollar(step_str, ExtensionLen(step_str))
  \/ SimpleLen(step_str) > 0 /\ AtDollar(step_str, SimpleLen(step_str))
  \/ MapIndexingLen(step_str) > 0 /\ AtDollar(step_str, MapIndexingLen(step_str))

\* A step a Path may hold: Path.__init__ checks the str steps only.
StepOk(x) == x.anon \/ is_valid_step(x.str)

(***************************************************************************)
(* path.py: Path operations.  A Path is its field_list.                    *)
(***************************************************************************)
get_parent(self) ==
  IF self = <<>>
    THEN [ok |-> FALSE, path |-> <<>>]
    ELSE [ok |-> TRUE, path |-> SubSeq(self, 1, Len(self) - 1)]

Path_get_child(self, field_name) ==
  IF ~StepOk(field_name)
    THEN [ok |-> FALSE, path |-> <<>>]
    ELSE [ok |-> TRUE, path |-> Append(self, field_name)]

concat(self, other_path) == self \o other_path

prefix(self, ending_index) ==
  SubSeq(self, 1, IF ending_index > Len(self) THEN Len(self) ELSE ending_index)

is_ancestor_strict(self, other) ==
  Len(self) < Len(other) /\ __eq__(self, SubSeq(other, 1, Len(self)))

is_ancestor(self, other) ==
  Len(self) <= Len(other) /\ __eq__(self, SubSeq(other, 1, Len(self)))

\* str(int): the decimal digits.
RECURSIVE IntStr(_)
IntStr(n) ==
  IF n < 10 THEN <<DIGIT0 + n>> ELSE Append(IntStr(n \div 10), DIGIT0 + (n % 10))

StepStr(x) == IF x.anon THEN IntStr(x.id) ELSE x.str

RECURSIVE __str___no_separator(_)
__str___no_separator(self) ==
  IF self = <<>> THEN <<>>
  ELSE StepStr(Head(self)) \o __str___no_separator(Tail(self))

\* Path.__str__: ".".join(str(x) for x in field_list)
RECURSIVE __str__(_)
__str__(self) ==
  IF self = <<>> THEN <<>>
  ELSE IF Len(self) = 1 THEN StepStr(self[1])
  ELSE StepStr(Head(self)) \o <<DOT>> \o __str__(Tail(self))

\* One match of path_step_separator_re at the start of rem: the step's length
\* (group 1) and the end of the match, or len = 0 when nothing matches.  The
\* alternatives are tried in order; each has one candidate length, because a
\* shorter run of step characters is followed by a step character.
SeparatorAfter(rem, n) ==
  IF n < Len(rem) /\ rem[n + 1] = DOT THEN n + 1
  ELSE IF AtDollar(rem, n) THEN n
  ELSE 0

StepMatch(rem) ==
  LET e == ExtensionLen(rem)
      s == SimpleLen(rem)
      m == MapIndexingLen(rem)
  IN  IF e > 0 /\ SeparatorAfter(rem, e) > 0
        THEN [len |-> e, end |-> SeparatorAfter(rem, e)]
      ELSE IF s > 0 /\ SeparatorAfter(rem, s) > 0
        THEN [len |-> s, end |-> SeparatorAfter(rem, s)]
      ELSE IF m > 0 /\ SeparatorAfter(rem, m) > 0
        THEN [len |-> m, end |-> SeparatorAfter(rem, m)]
      ELSE [len |-> 0, end |-> 0]

RECURSIVE ParseSteps(_, _)
ParseSteps(path_remaining, result) ==
  IF path_remaining = <<>>
    THEN [ok |-> TRUE, path |-> result]
    ELSE LET next_match == StepMatch(path_remaining)
         IN  IF next_match.len = 0
               THEN [ok |-> FALSE, path |-> <<>>]
               ELSE ParseSteps(
                      SubSeq(path_remaining, next_match.end + 1, Len(path_remaining)),
                      Append(result, StrStep(SubSeq(path_remaining, 1, next_match.len))))

\* create_path on a str: fails on a trailing "." and on a step that does not match.
create_path(path_source) ==
  IF path_source # <<>> /\ path_source[Len(path_source)] = DOT
    THEN [ok |-> FALSE, path |-> <<>>]
    ELSE ParseSteps(path_source, <<>>)

(***************************************************************************)
(* Objects.  Expressions live in heap (an expression's identity is its     *)
(* index), schema_pb2.Feature messages in feats; None is 0.                *)
(***************************************************************************)
None == 0
\* What an operation returns when it raises.
Raised == -1
NoType == "None"
EmptyMap == [x \in {} |-> None]

\* prensor node tensors (RootNodeTensor, ChildNodeTensor, LeafNodeTensor).
\* tid is the identity of the tensor object (0: built by a calculation).
NoTensor == [kind |-> "none", tid |-> 0, size |-> 0, parent_index |-> <<>>,
             values |-> <<>>, is_repeated |-> FALSE]
RootNodeTensor(tid, size) ==
  [kind |-> "root", tid |-> tid, size |-> size, parent_index |-> <<>>,
   values |-> <<>>, is_repeated |-> TRUE]
ChildNodeTensor(tid, parent_index, is_repeated) ==
  [kind |-> "child", tid |-> tid, size |-> 0, parent_index |-> parent_index,
   values |-> <<>>, is_repeated |-> is_repeated]
LeafNodeTensor(tid, parent_index, values, is_repeated) ==
  [kind |-> "leaf", tid |-> tid, size |-> 0, parent_index |-> parent_index,
   values |-> values, is_repeated |-> is_repeated]

\* Expression.__init__: the fields every expression has; the rest are the
\* subclasses' fields, at their defaults.
Expression__init__(kind, is_repeated, my_type, schema_feature) ==
  [kind |-> kind,
   is_repeated |-> is_repeated,
   type |-> my_type,
   child_cache |-> EmptyMap,
   schema_feature |-> schema_feature,
   origin |-> None,            \* _origin (_original of a _SchemaExpression)
   origin_parent |-> None,     \* PromoteExpression._origin_parent
   depth_limit |-> 0,          \* _DepthLimitExpression._depth_limit
   child_features |-> <<>>,    \* _SchemaExpression._child_features
   children |-> EmptyMap,      \* MockExpression._children
   known |-> {},               \* MockExpression._known_field_names
   sources |-> <<>>,           \* MockExpression._source_expressions
   calculate_output |-> NoTensor,  \* MockExpression._calculate_output
   identity |-> FALSE,         \* MockExpression._calculate_is_identity
   new_path |-> <<>>]          \* the path add_paths adds (origin_parent: its expression)

MockExpression(is_repeated, my_type, children, known, sources, calculate_output, identity, schema_feature) ==
  [Expression__init__("Mock", is_repeated, my_type, schema_feature) EXCEPT
     !.children = children, !.known = known, !.sources = sources,
     !.calculate_output = calculate_output, !.identity = identity]

\* The world an operation runs in and changes: the expressions, the Feature
\* messages, and for every (expression, name) the number of _get_child_impl
\* invocations and the result of the first get_child.
World(h, f, c, fr) == [heap |-> h, feats |-> f, calls |-> c, first |-> fr]

Alloc(w, obj) == [w EXCEPT !.heap = Append(@, obj)]
NewId(w) == Len(w.heap) + 1

Ret(w, result) == [w |-> w, result |-> result]

(***************************************************************************)
(* depth_limit.py                                                          *)
(***************************************************************************)
_DepthLimitExpression(w, origin, depth_limit) ==
  [Expression__init__("DepthLimit", w.heap[origin].is_repeated,
                      w.heap[origin].type, None) EXCEPT
     !.origin = origin, !.depth_limit = depth_limit]

(***************************************************************************)
(* apply_schema.py                                                         *)
(***************************************************************************)
_SchemaExpression(w, original, child_features, schema_feature) ==
  [Expression__init__("Schema", w.heap[original].is_repeated,
                      w.heap[original].type, schema_feature) EXCEPT
     !.origin = original, !.child_features = child_features]

\* _clean_feature: in place.
_clean_feature(w, feature) ==
  LET f == w.feats[feature]
  IN  [w EXCEPT !.feats[feature] =
         [f EXCEPT !.name = <<>>,
                   !.sub = IF f.has_struct THEN <<>> ELSE f.sub]]

\* _find_feature_proto: the first child feature with that name.
_find_feature_proto(w, self, field_name) ==
  LET cf == w.heap[self].child_features
      at == {i \in 1..Len(cf) :
               ~field_name.anon /\ w.feats[cf[i]].name = field_name.str}
  IN  IF at = {} THEN None ELSE cf[Min(at)]

\* _apply_feature: copy the child list, clean the feature in place, wrap.
_apply_feature(w, original_child, feature) ==
  LET feature_copy == IF w.feats[feature].has_struct
                        THEN w.feats[feature].sub ELSE <<>>
      w1 == _clean_feature(w, feature)
  IN  Ret(Alloc(w1, _SchemaExpression(w1, original_child, feature_copy, feature)),
          NewId(w1))

(***************************************************************************)
(* expression.py: Expression.get_child and the subclasses' hooks           *)
(***************************************************************************)
RECURSIVE get_child(_, _, _)
RECURSIVE _get_child_impl(_, _, _)

\* MockExpression._get_child_impl: self._children.get(field_name)
Mock_get_child_impl(w, self, field_name) ==
  Ret(w, IF field_name \in DOMAIN w.heap[self].children
           THEN w.heap[self].children[field_name] ELSE None)

\* Leaf._get_child_impl (PromoteExpression is a Leaf)
Leaf_get_child_impl(w, self, field_name) == Ret(w, None)

DepthLimit_get_child_impl_no_limit(w, self, field_name) ==
  LET r == get_child(w, w.heap[self].origin, field_name)
      d == w.heap[self].depth_limit
  IN  IF r.result = None THEN Ret(r.w, None)
      ELSE Ret(Alloc(r.w, _DepthLimitExpression(r.w, r.result,
                                                IF d = 0 THEN 0 ELSE d - 1)),
               NewId(r.w))

\* _DepthLimitExpression._get_child_impl
DepthLimit_get_child_impl(w, self, field_name) ==
  IF w.heap[self].depth_limit = 0 THEN Ret(w, None)
  ELSE LET r == get_child(w, w.heap[self].origin, field_name)
       IN  IF r.result = None THEN Ret(r.w, None)
           ELSE Ret(Alloc(r.w, _DepthLimitExpression(r.w, r.result,
                                  w.heap[self].depth_limit - 1)),
                    NewId(r.w))

Schema_get_child_impl_schema_only(w, self, field_name) ==
  LET r == get_child(w, w.heap[self].origin, field_name)
  IN  IF r.result = None THEN Ret(r.w, None)
      ELSE LET feature_proto == _find_feature_proto(r.w, self, field_name)
           IN  IF feature_proto = None THEN Ret(r.w, None)
               ELSE _apply_feature(r.w, r.result, feature_proto)

\* _SchemaExpression._get_child_impl
Schema_get_child_impl(w, self, field_name) ==
  LET r == get_child(w, w.heap[self].origin, field_name)
  IN  IF r.result = None THEN Ret(r.w, None)
      ELSE LET feature_proto == _find_feature_proto(r.w, self, field_name)
           IN  IF feature_proto = None THEN Ret(r.w, r.result)
               ELSE _apply_feature(r.w, r.result, feature_proto)

\* add_paths' expression: the origin's children, and the added path below
\* them.  A child on the way to the added path is an expression of the same
\* kind over the origin's child.
AddPaths_get_child_impl(w, self, field_name) ==
  LET e == w.heap[self]
  IN  IF e.new_path # <<>> /\ e.new_path[1] = field_name
        THEN IF Len(e.new_path) = 1 THEN Ret(w, e.origin_parent)
             ELSE LET r == get_child(w, e.origin, field_name)
                  IN  IF r.result = None THEN Ret(r.w, None)
                      ELSE Ret(Alloc(r.w,
                                 [Expression__init__("AddPaths",
                                    r.w.heap[r.result].is_repeated,
                                    r.w.heap[r.result].type,
                                    r.w.heap[r.result].schema_feature) EXCEPT
                                    !.origin = r.result,
                                    !.origin_parent = e.origin_parent,
                                    !.new_path = Tail(e.new_path)]),
                               NewId(r.w))
        ELSE get_child(w, e.origin, field_name)

\* The dispatch on the subclass, counting the invocation.
_get_child_impl(w, self, field_name) ==
  LET k == w.heap[self].kind
      key == <<self, field_name>>
      w1 == [w EXCEPT !.calls =
               IF key \in DOMAIN @ THEN [@ EXCEPT ![key] = @ + 1]
               ELSE (key :> 1) @@ @]
  IN  CASE k = "Mock" -> Mock_get_child_impl(w1, self, field_name)
        [] k = "Promote" -> Leaf_get_child_impl(w1, self, field_name)
        [] k = "DepthLimit" -> DepthLimit_get_child_impl(w1, self, field_name)
        [] k = "Schema" -> Schema_get_child_impl(w1, self, field_name)
        [] k = "AddPaths" -> AddPaths_get_child_impl(w1, self, field_name)

\* The first result of get_child for (self, field_name) is remembered.
NoteFirst(w, self, field_name, result) ==
  IF <<self, field_name>> \in DOMAIN w.first THEN w
  ELSE [w EXCEPT !.first = (<<self, field_name>> :> result) @@ @]

get_child_no_cache(w, self, field_name) ==
  LET r == _get_child_impl(w, self, field_name)
  IN  Ret(NoteFirst(r.w, self, field_name, r.result), r.result)

\* Expression.get_child
get_child(w, self, field_name) ==
  IF field_name \in DOMAIN w.heap[self].child_cache
    THEN Ret(w, w.heap[self].child_cache[field_name])
    ELSE LET r == _get_child_impl(w, self, field_name)
             w1 == [r.w EXCEPT !.heap[self].child_cache =
                      (field_name :> r.result) @@ @]
         IN  Ret(NoteFirst(w1, self, field_name, r.result), r.result)

\* Expression.get_descendant: None at the first missing step.
RECURSIVE get_descendant_from(_, _, _)
get_descendant_from(w, result, field_list) ==
  IF field_list = <<>> THEN Ret(w, result)
  ELSE LET r == get_child(w, result, Head(field_list))
       IN  IF r.result = None THEN Ret(r.w, None)
           ELSE get_descendant_from(r.w, r.result, Tail(field_list))

get_descendant(w, self, p) == get_descendant_from(w, self, p)

\* Expression.get_descendant_or_error: result None stands for the ValueError.
get_descendant_or_error(w, self, p) == get_descendant(w, self, p)

(***************************************************************************)
(* expression.py / subclasses: known_field_names                           *)
(***************************************************************************)
RECURSIVE known_field_names(_, _)

\* The loop of _SchemaExpression.known_field_names over _child_features:
\* each feature's current name is looked up with get_child.
RECURSIVE Schema_known_loop(_, _, _, _)
Schema_known_loop(w, self, features, result) ==
  IF features = <<>> THEN Ret(w, result)
  ELSE LET field_name == StrStep(w.feats[Head(features)].name)
           r == get_child(w, self, field_name)
       IN  Schema_known_loop(r.w, self, Tail(features),
             IF r.result # None THEN result \cup {field_name} ELSE result)

\* _SchemaExpression.known_field_names
Schema_known_field_names(w, self) ==
  LET r == known_field_names(w, w.heap[self].origin)
  IN  Schema_known_loop(r.w, self, w.heap[self].child_features, r.result)

DepthLimit_known_field_names_no_limit(w, self) ==
  known_field_names(w, w.heap[self].origin)

\* _DepthLimitExpression.known_field_names
DepthLimit_known_field_names(w, self) ==
  IF w.heap[self].depth_limit = 0 THEN Ret(w, {})
  ELSE known_field_names(w, w.heap[self].origin)

known_field_names(w, self) ==
  LET k == w.heap[self].kind
  IN  CASE k = "Mock" -> Ret(w, w.heap[self].known)
        [] k = "Promote" -> Ret(w, {})
        [] k = "DepthLimit" -> DepthLimit_known_field_names(w, self)
        [] k = "Schema" -> Schema_known_field_names(w, self)
        [] k = "AddPaths" ->
             LET r == known_field_names(w, w.heap[self].origin)
             IN  Ret(r.w, r.result \cup {w.heap[self].new_path[1]})

(***************************************************************************)
(* depth_limit.py: limit_depth                                             *)
(***************************************************************************)
limit_depth(w, expr, depth_limit) ==
  Ret(Alloc(w, _DepthLimitExpression(w, expr, depth_limit)), NewId(w))

(***************************************************************************)
(* schema_pb2.Feature messages, as far as this code reads and writes them  *)
(***************************************************************************)
\* A presence.min_fraction is a rational num/den.
Frac(n, d) == [num |-> n, den |-> d]

\* schema_pb2.Feature(): every field unset.
NewFeature ==
  [name |-> <<>>,
   has_struct |-> FALSE, sub |-> <<>>,          \* struct_domain.feature
   has_domain |-> FALSE,                        \* HasField("domain")
   domain |-> <<>>,                             \* the name of the global domain
   domain_copy |-> "none",                      \* string_domain / int_domain / float_domain
   lifecycle_stage |-> "UNKNOWN_STAGE",
   type |-> "TYPE_UNKNOWN",
   has_dc |-> FALSE,                            \* distribution_constraints
   vc_has_min |-> FALSE, vc_min |-> 0,          \* value_count
   vc_has_max |-> FALSE, vc_max |-> 0,
   has_min_fraction |-> FALSE, min_fraction |-> Frac(0, 1),   \* presence
   has_min_count |-> FALSE, min_count |-> 0]

\* _normalize_feature: the children first, then this feature's domain.  The
\* result Raised is the ValueError; what was changed before it stays changed.
\* domain and the three inline domains are members of one oneof: the copy
\* takes the place of the reference, and carries the domain's name.
RECURSIVE _normalize_feature(_, _, _)
RECURSIVE _normalize_features(_, _, _)
_normalize_features(w, features, schema) ==
  IF features = <<>> THEN Ret(w, None)
  ELSE LET r == _normalize_feature(w, Head(features), schema)
       IN  IF r.result = Raised THEN r
           ELSE _normalize_features(r.w, Tail(features), schema)

_normalize_feature_shallow(w, feature, schema) ==
  LET f == w.feats[feature]
  IN  IF ~f.has_domain THEN Ret(w, None)
      ELSE IF f.domain \in schema.string_domain
        THEN Ret([w EXCEPT !.feats[feature].domain_copy = "string_domain",
                           !.feats[feature].has_domain = FALSE], None)
      ELSE IF f.domain \in schema.int_domain
        THEN Ret([w EXCEPT !.feats[feature].domain_copy = "int_domain",
                           !.feats[feature].has_domain = FALSE], None)
      ELSE IF f.domain \in schema.float_domain
        THEN Ret([w EXCEPT !.feats[feature].domain_copy = "float_domain",
                           !.feats[feature].has_domain = FALSE], None)
      ELSE Ret(w, Raised)

_normalize_feature(w, feature, schema) ==
  LET r == IF w.feats[feature].has_struct
             THEN _normalize_features(w, w.feats[feature].sub, schema)
             ELSE Ret(w, None)
      f == r.w.feats[feature]
  IN  IF r.result = Raised THEN r
      ELSE IF ~f.has_domain THEN Ret(r.w, None)
      ELSE IF f.domain \in schema.string_domain
        THEN Ret([r.w EXCEPT !.feats[feature].domain_copy = "string_domain",
                             !.feats[feature].has_domain = FALSE], None)
      ELSE IF f.domain \in schema.int_domain
        THEN Ret([r.w EXCEPT !.feats[feature].domain_copy = "int_domain",
                             !.feats[feature].has_domain = FALSE], None)
      ELSE IF f.domain \in schema.float_domain
        THEN Ret([r.w EXCEPT !.feats[feature].domain_copy = "float_domain",
                             !.feats[feature].has_domain = FALSE], None)
      ELSE Ret(r.w, Raised)

\* apply_schema: normalizes the schema's own features (schema_copy is not
\* used), then wraps expr.
apply_schema(w, expr, schema) ==
  LET r == _normalize_features(w, schema.feature, schema)
  IN  IF r.result = Raised THEN r
      ELSE Ret(Alloc(r.w, _SchemaExpression(r.w, expr, schema.feature, None)),
               NewId(r.w))

(***************************************************************************)
(* promote.py                                                              *)
(***************************************************************************)
\* The list in _lifecycle_stage_number; "None" is Python's None.
stages ==
  <<"DEPRECATED", "PLANNED", "ALPHA", "DEBUG_ONLY", "None", "UNKNOWN_STAGE",
    "BETA", "PRODUCTION">>

\* stages.index(a): Raised is the ValueError of a stage not in the list.
_lifecycle_stage_number(a) ==
  LET at == {i \in 1..Len(stages) : stages[i] = a}
  IN  IF at = {} THEN Raised ELSE Min(at) - 1

_min_lifecycle_stage_first(a, b) ==
  IF _lifecycle_stage_number(b) = Raised \/ _lifecycle_stage_number(a) = Raised
    THEN "Raised"
  ELSE a

\* b is evaluated first, then a.
_min_lifecycle_stage(a, b) ==
  IF _lifecycle_stage_number(b) = Raised \/ _lifecycle_stage_number(a) = Raised
    THEN "Raised"
  ELSE IF _lifecycle_stage_number(b) < _lifecycle_stage_number(a) THEN b
  ELSE a

_feature_is_dense_any_fraction(feature) ==
  /\ feature.vc_has_min
  /\ feature.vc_has_max
  /\ feature.vc_min = feature.vc_max

_feature_is_dense(feature) ==
  /\ feature.min_fraction.num = feature.min_fraction.den
  /\ feature.vc_has_min
  /\ feature.vc_has_max
  /\ feature.vc_min = feature.vc_max

\* _copy_domain_info: the domain_info of origin, copied into dest.
_copy_domain_info(origin, dest) ==
  [dest EXCEPT !.has_domain = origin.has_domain, !.domain = origin.domain,
               !.domain_copy = origin.domain_copy,
               !.has_struct = origin.has_struct, !.sub = origin.sub]

\* The bounds of the promoted field under a dense parent; the division by
\* parent_size raises ZeroDivisionError when parent_size is 0.
PromoteBoundsRaise(original, parent_size) ==
  /\ parent_size = 0
  /\ \/ original.has_min_fraction
        /\ original.min_fraction.num # original.min_fraction.den
     \/ original.has_min_count

PromoteBounds(result, original, parent_size) ==
  [result EXCEPT
     !.vc_has_min = original.vc_has_min,
     !.vc_min = IF original.vc_has_min THEN parent_size * original.vc_min ELSE 0,
     !.vc_has_max = original.vc_has_max,
     !.vc_max = IF original.vc_has_max THEN parent_size * original.vc_max ELSE 0,
     !.has_min_fraction = original.has_min_fraction,
     !.min_fraction =
        IF ~original.has_min_fraction THEN Frac(0, 1)
        ELSE IF original.min_fraction.num = original.min_fraction.den THEN Frac(1, 1)
        ELSE Frac(original.min_fraction.num, original.min_fraction.den * parent_size),
     !.has_min_count = original.has_min_count,
     !.min_count = IF original.has_min_count
                     THEN original.min_count \div parent_size ELSE 0]

\* _get_promote_schema_feature on two features (ids, or None): the id of the
\* new Feature, None, or Raised.
_get_promote_schema_feature(w, original, parent) ==
  IF original = None \/ parent = None THEN Ret(w, None)
  ELSE LET o == w.feats[original]
           pf == w.feats[parent]
           stage == _min_lifecycle_stage(o.lifecycle_stage, pf.lifecycle_stage)
           r1 == [NewFeature EXCEPT !.lifecycle_stage = stage, !.type = o.type,
                                    !.has_dc = o.has_dc]
           r2 == _copy_domain_info(o, r1)
       IN  IF stage = "Raised" THEN Ret(w, Raised)
           ELSE IF ~_feature_is_dense(pf)
             THEN Ret([w EXCEPT !.feats = Append(@, r2)], Len(w.feats) + 1)
           ELSE IF PromoteBoundsRaise(o, pf.vc_min) THEN Ret(w, Raised)
           ELSE Ret([w EXCEPT !.feats = Append(@, PromoteBounds(r2, o, pf.vc_min))],
                    Len(w.feats) + 1)

PromoteExpression__init___repeated_of_origin(w, origin, origin_parent) ==
  LET f == _get_promote_schema_feature(w, w.heap[origin].schema_feature,
                                       w.heap[origin_parent].schema_feature)
  IN  IF f.result = Raised THEN Ret(f.w, Raised)
      ELSE IF w.heap[origin].type = NoType THEN Ret(f.w, Raised)
      ELSE IF w.heap[origin_parent].type # NoType THEN Ret(f.w, Raised)
      ELSE Ret(Alloc(f.w,
                 [Expression__init__("Promote", w.heap[origin].is_repeated,
                                     w.heap[origin].type, f.result) EXCEPT
                    !.origin = origin, !.origin_parent = origin_parent]),
               NewId(f.w))

\* PromoteExpression.__init__: the schema feature is computed first (the
\* argument of the super().__init__ call), then the two type checks.
PromoteExpression__init__(w, origin, origin_parent) ==
  LET f == _get_promote_schema_feature(w, w.heap[origin].schema_feature,
                                       w.heap[origin_parent].schema_feature)
  IN  IF f.result = Raised THEN Ret(f.w, Raised)
      ELSE IF w.heap[origin].type = NoType THEN Ret(f.w, Raised)
      ELSE IF w.heap[origin_parent].type # NoType THEN Ret(f.w, Raised)
      ELSE Ret(Alloc(f.w,
                 [Expression__init__("Promote",
                    w.heap[origin].is_repeated \/ w.heap[origin_parent].is_repeated,
                    w.heap[origin].type, f.result) EXCEPT
                    !.origin = origin, !.origin_parent = origin_parent]),
               NewId(f.w))

\* expression_add.add_paths(root, {new_path: expr}): a new root over root
\* that has expr at new_path.
add_paths(w, root, new_path, expr) ==
  Ret(Alloc(w, [Expression__init__("AddPaths", w.heap[root].is_repeated,
                                   w.heap[root].type,
                                   w.heap[root].schema_feature) EXCEPT
                  !.origin = root, !.origin_parent = expr,
                  !.new_path = new_path]),
      NewId(w))

\* What _promote_impl gives: (the new root, new_path), with the promoted
\* expression; ok is FALSE when it raised.
PromoteRaised == [ok |-> FALSE, root |-> None, expr |-> None, new_path |-> <<>>]

\* The value of a one-element set: binds an intermediate result once.
The(S) == CHOOSE x \in S : TRUE

\* _promote_impl.  The dict literal evaluates the key, then the two
\* lookups, then the constructor.
_promote_impl(w, root, p, new_field_name) ==
  IF Len(p) < 2 THEN Ret(w, PromoteRaised)
  ELSE LET parent_path == get_parent(p).path
           grandparent_path == get_parent(parent_path).path
           new_path == Path_get_child(grandparent_path, new_field_name)
       IN  IF ~new_path.ok THEN Ret(w, PromoteRaised)
           ELSE The({
             IF o.result = None THEN Ret(o.w, PromoteRaised)
             ELSE The({
               IF op.result = None THEN Ret(op.w, PromoteRaised)
               ELSE The({
                 IF e.result = Raised THEN Ret(e.w, PromoteRaised)
                 ELSE The({
                   Ret(a.w, [ok |-> TRUE, root |-> a.result, expr |-> e.result,
                             new_path |-> new_path.path])
                   : a \in {add_paths(e.w, root, new_path.path, e.result)}})
                 : e \in {PromoteExpression__init__(op.w, o.result, op.result)}})
               : op \in {get_descendant_or_error(o.w, root, parent_path)}})
             : o \in {get_descendant_or_error(w, root, p)}})

\* promote: _promote_impl(...)[0], kept here with the expression and path.
promote(w, root, p, new_field_name) == _promote_impl(w, root, p, new_field_name)

(***************************************************************************)
(* calculate, and expression_test_util.calculate_value_slowly              *)
(***************************************************************************)
\* A calculation returns a node tensor or raises.
Value(t) == [ok |-> TRUE, tensor |-> t]
Raise == [ok |-> FALSE, tensor |-> NoTensor]

\* tf.gather(params, indices) with indices inside params (0-based).
gather_shifted(params, indices) ==
  [i \in 1..Len(indices) |-> params[((indices[i] + 1) % Len(params)) + 1]]

gather(params, indices) ==
  [i \in 1..Len(indices) |-> params[indices[i] + 1]]

\* PromoteExpression.calculate.  An index outside the parent level is
\* rejected by tf.gather; a prensor never holds one.
Promote_calculate(h, self, sources) ==
  IF Len(sources) # 2 THEN Raise
  ELSE IF sources[1].kind # "leaf" THEN Raise
  ELSE IF sources[2].kind # "child" THEN Raise
  ELSE IF \E i \in 1..Len(sources[1].parent_index) :
            sources[1].parent_index[i] >= Len(sources[2].parent_index)
    THEN Raise
  ELSE Value(LeafNodeTensor(0,
               gather(sources[2].parent_index, sources[1].parent_index),
               sources[1].values, h[self].is_repeated))

DepthLimit_calculate_empty(h, self, sources) ==
  IF Len(sources) # 1 THEN Raise
  ELSE Value([sources[1] EXCEPT !.parent_index = <<>>, !.values = <<>>])

\* _DepthLimitExpression.calculate
DepthLimit_calculate(h, self, sources) ==
  IF Len(sources) # 1 THEN Raise ELSE Value(sources[1])

\* _SchemaExpression.calculate
Schema_calculate(h, self, sources) ==
  IF Len(sources) # 1 THEN Raise ELSE Value(sources[1])

\* MockExpression.calculate: the sources must be the very tensors of the
\* mock's source expressions.
Mock_calculate(h, self, sources) ==
  LET expected == [i \in 1..Len(h[self].sources) |->
                     h[h[self].sources[i]].calculate_output]
  IN  IF Len(sources) # Len(expected) THEN Raise
      ELSE IF \E i \in 1..Len(sources) : expected[i].tid # sources[i].tid THEN Raise
      ELSE Value(h[self].calculate_output)

calculate(h, self, sources) ==
  LET k == h[self].kind
  IN  CASE k = "Mock" -> Mock_calculate(h, self, sources)
        [] k = "Promote" -> Promote_calculate(h, self, sources)
        [] k = "DepthLimit" -> DepthLimit_calculate(h, self, sources)
        [] k = "Schema" -> Schema_calculate(h, self, sources)
        [] k = "AddPaths" -> IF Len(sources) # 1 THEN Raise ELSE Value(sources[1])

get_source_expressions(h, self) ==
  LET k == h[self].kind
  IN  CASE k = "Mock" -> h[self].sources
        [] k = "Promote" -> <<h[self].origin, h[self].origin_parent>>
        [] k = "DepthLimit" -> <<h[self].origin>>
        [] k = "Schema" -> <<h[self].origin>>
        [] k = "AddPaths" -> <<h[self].origin>>

calculation_is_identity(h, self) ==
  LET k == h[self].kind
  IN  CASE k = "Mock" -> h[self].identity
        [] k = "Promote" -> FALSE
        [] k = "DepthLimit" -> TRUE
        [] k = "Schema" -> TRUE
        [] k = "AddPaths" -> TRUE

\* calculation_equal, as each class overrides it: a mock compares the two
\* identity answers, a promotion asks for another promotion, and the
\* depth-limit and schema expressions ask whether the other is the identity.
calculation_equal(h, self, expr) ==
  LET k == h[self].kind
  IN  CASE k = "Mock" ->
             calculation_is_identity(h, self) /\ calculation_is_identity(h, expr)
        [] k = "Promote" -> h[expr].kind = "Promote"
        [] k = "DepthLimit" -> calculation_is_identity(h, expr)
        [] k = "Schema" -> calculation_is_identity(h, expr)
        [] k = "AddPaths" -> calculation_is_identity(h, expr)

\* calculate_value_slowly: the sources first, in order, without caching.
RECURSIVE calculate_value_slowly(_, _)
calculate_value_slowly(h, expr) ==
  LET srcs == get_source_expressions(h, expr)
      source_node_tensors ==
        [i \in 1..Len(srcs) |-> calculate_value_slowly(h, srcs[i])]
  IN  IF \E i \in 1..Len(srcs) : ~source_node_tensors[i].ok THEN Raise
      ELSE calculate(h, expr,
                     [i \in 1..Len(srcs) |-> source_node_tensors[i].tensor])

(***************************************************************************)
(* The expressions a client starts from: trees of MockExpressions, as the  *)
(* tests build them.                                                       *)
(***************************************************************************)
NA == StrStep(<<97>>)            \* "a"
NB == StrStep(<<98>>)            \* "b"
NX == StrStep(<<40, 120, 41>>)   \* "(x)": an extension, never a known field
NameSeq == <<NA, NB, NX>>

\* The number of elements of every level of the mock prensors.
LevelSize == 2

\* The tensor of the mock at path, with the identity tid.
MockTensor(tid, path, is_leaf, is_repeated) ==
  IF path = <<>> THEN RootNodeTensor(tid, LevelSize)
  ELSE IF is_leaf
    THEN LeafNodeTensor(tid, [i \in 1..LevelSize |-> i - 1],
                        [i \in 1..LevelSize |-> 10 * i], is_repeated)
  ELSE ChildNodeTensor(tid, [i \in 1..LevelSize |-> i - 1], is_repeated)

\* Builds the mocks of the subtree of shape at path, children first; result
\* is the subtree's root.  A node with children is a struct, one without is
\* an int64 field; "a" fields are repeated, the others optional.
RECURSIVE BuildMock(_, _, _)
RECURSIVE BuildChildren(_, _, _, _, _)
BuildChildren(w, shape, path, names, children) ==
  IF names = <<>> THEN Ret(w, children)
  ELSE IF Append(path, Head(names)) \notin shape
    THEN BuildChildren(w, shape, path, Tail(names), children)
  ELSE LET r == BuildMock(w, shape, Append(path, Head(names)))
       IN  BuildChildren(r.w, shape, path, Tail(names),
                         (Head(names) :> r.result) @@ children)

BuildMock(w, shape, path) ==
  LET r == BuildChildren(w, shape, path, NameSeq, EmptyMap)
      is_leaf == path # <<>> /\ DOMAIN r.result = {}
      is_repeated == path = <<>> \/ path[Len(path)] = NA
  IN  Ret(Alloc(r.w,
            MockExpression(is_repeated,
                           IF is_leaf THEN "int64" ELSE NoType,
                           r.result, DOMAIN r.result \ {NX}, <<>>,
                           MockTensor(NewId(r.w), path, is_leaf, is_repeated),
                           FALSE, None)),
          NewId(r.w))

\* get_mock_leaf: a mock field; one that says it is the identity returns the
\* tensor of its first source.
get_mock_leaf(w, is_repeated, my_type, source_expressions, calculate_is_identity) ==
  LET calculate_output ==
        IF calculate_is_identity
          THEN w.heap[source_expressions[1]].calculate_output
          ELSE LeafNodeTensor(NewId(w), <<>>, <<>>, is_repeated)
  IN  Ret(Alloc(w, MockExpression(is_repeated, my_type, EmptyMap, {},
                                  source_expressions, calculate_output,
                                  calculate_is_identity, None)),
          NewId(w))

\* A mock field with elements and, over it, a mock leaf that is the identity.
BuildIdentityLeaf(w) ==
  LET src == MockExpression(TRUE, "int64", EmptyMap, {}, <<>>,
                            MockTensor(NewId(w), <<NA>>, TRUE, TRUE), FALSE, None)
  IN  get_mock_leaf(Alloc(w, src), TRUE, "int64", <<NewId(w)>>, TRUE)

Shapes ==
  { {<<>>},
    {<<>>, <<NA>>, <<NB>>, <<NB, NA>>},
    {<<>>, <<NA>>, <<NA, NX>>},
    {<<>>, <<NA>>, <<NA, NA>>, <<NA, NA, NA>>, <<NA, NB>>, <<NB>>} }

\* The features of the schemas: "a" (a struct with the children "a", "b"
\* and "(x)"), and "z", which no mock has.  "b" refers to the global domain
\* "d", "z" to the global domain "e".
NamedFeature(name) == [NewFeature EXCEPT !.name = name]
SchemaFeats ==
  << [NamedFeature(<<97>>) EXCEPT !.has_struct = TRUE, !.sub = <<3, 4, 5>>],
     [NamedFeature(<<122>>) EXCEPT !.has_domain = TRUE, !.domain = <<101>>],
     NamedFeature(<<97>>),
     [NamedFeature(<<98>>) EXCEPT !.has_domain = TRUE, !.domain = <<100>>],
     NamedFeature(<<40, 120, 41>>) >>

Schemas ==
  { [feature |-> <<1, 2>>, string_domain |-> {<<100>>}, int_domain |-> {},
     float_domain |-> {<<101>>}],
    [feature |-> <<1, 2>>, string_domain |-> {}, int_domain |-> {<<100>>},
     float_domain |-> {<<101>>}],
    [feature |-> <<1, 2>>, string_domain |-> {}, int_domain |-> {},
     float_domain |-> {}] }

EmptyWorld == World(<<>>, <<>>, EmptyMap, EmptyMap)

NoOp == [op |-> "none"]

\* No thread is in a call, and no anonymous field was handed out.
ThreadIdle == _NEXT_ANONYMOUS_FIELD = 0 /\ threads = <<>>

PathIdle ==
  /\ pa = <<>> /\ pb = <<>> /\ pc = <<>> /\ px = NA /\ pres = NoOp
  /\ ThreadIdle

ExprIdle ==
  /\ heap = <<>> /\ feats = <<>> /\ calls = EmptyMap /\ first = EmptyMap
  /\ schema_msg = [feature |-> <<>>, string_domain |-> {}, int_domain |-> {},
               float_domain |-> {}]
  /\ top = None /\ held = None /\ last = NoOp /\ nops = 0
  /\ ThreadIdle

(***************************************************************************)
(* Spec: a client works on an expression tree.                             *)
(***************************************************************************)
MaxOps == 3
MaxDepthLimit == 2

LookupNames == {NA, NB, NX}
LookupPaths == {<<NA, NA>>, <<NA, NB>>, <<NA, NA, NA>>, <<NB, NA, NA>>}

Cur == World(heap, feats, calls, first)

Commit(w) ==
  /\ heap' = w.heap
  /\ feats' = w.feats
  /\ calls' = w.calls
  /\ first' = w.first

Targets == {top} \cup (IF held = None THEN {} ELSE {held})

\* What the client holds after an operation on t returned the expression r.
Hold(t, r) == IF t = top /\ r # None THEN r ELSE held

Init ==
  /\ PathIdle
  /\ \E shape \in Shapes :
       LET r == BuildMock(World(<<>>, SchemaFeats, EmptyMap, EmptyMap), shape, <<>>)
           l == BuildIdentityLeaf(r.w)
       IN  /\ heap = l.w.heap
           /\ top = r.result
           /\ held = l.result
  /\ feats = SchemaFeats
  /\ schema_msg \in Schemas
  /\ calls = EmptyMap
  /\ first = EmptyMap
  /\ last = NoOp
  /\ nops = 0

GetChild(t, n) ==
  /\ nops < MaxOps
  /\ LET r == get_child(Cur, t, n)
     IN  /\ Commit(r.w)
         /\ last' = [op |-> "get_child", self |-> t, name |-> n, result |-> r.result,
                     cached |-> n \in DOMAIN heap[t].child_cache]
         /\ held' = Hold(t, r.result)
  /\ nops' = nops + 1
  /\ UNCHANGED <<pathVars, schema_msg, top>>

GetDescendant(t, p) ==
  /\ nops < MaxOps
  /\ LET r == get_descendant(Cur, t, p)
     IN  /\ Commit(r.w)
         /\ last' = [op |-> "get_descendant", self |-> t, path |-> p,
                     result |-> r.result]
         /\ held' = Hold(t, r.result)
  /\ nops' = nops + 1
  /\ UNCHANGED <<pathVars, schema_msg, top>>

KnownFieldNames(t) ==
  /\ nops < MaxOps
  /\ LET r == known_field_names(Cur, t)
     IN  /\ Commit(r.w)
         /\ last' = [op |-> "known_field_names", self |-> t, result |-> r.result]
  /\ nops' = nops + 1
  /\ UNCHANGED <<pathVars, schema_msg, top, held>>

LimitDepth(t, d) ==
  /\ nops < MaxOps
  /\ LET r == limit_depth(Cur, t, d)
     IN  /\ Commit(r.w)
         /\ last' = [op |-> "limit_depth", expr |-> t, depth_limit |-> d,
                     result |-> r.result]
         /\ top' = r.result
  /\ held' = None
  /\ nops' = nops + 1
  /\ UNCHANGED <<pathVars, schema_msg>>

ApplySchema(t) ==
  /\ nops < MaxOps
  /\ LET r == apply_schema(Cur, t, schema_msg)
     IN  /\ Commit(r.w)
         /\ last' = [op |-> "apply_schema", expr |-> t, result |-> r.result]
         /\ top' = IF r.result = Raised THEN top ELSE r.result
         /\ held' = IF r.result = Raised THEN held ELSE None
  /\ nops' = nops + 1
  /\ UNCHANGED <<pathVars, schema_msg>>

Calculate(t) ==
  /\ nops < MaxOps
  /\ last' = [op |-> "calculate", expr |-> t,
              result |-> calculate_value_slowly(heap, t)]
  /\ nops' = nops + 1
  /\ UNCHANGED <<pathVars, heap, feats, schema_msg, calls, first, top, held>>

CalculationEqual(t, u) ==
  /\ nops < MaxOps
  /\ last' = [op |-> "calculation_equal", self |-> t, expr |-> u,
              result |-> calculation_equal(heap, t, u)]
  /\ nops' = nops + 1
  /\ UNCHANGED <<pathVars, heap, feats, schema_msg, calls, first, top, held>>

Next ==
  \/ \E t \in Targets, n \in LookupNames : GetChild(t, n)
  \/ \E t \in Targets, p \in LookupPaths : GetDescendant(t, p)
  \/ \E t \in Targets : KnownFieldNames(t)
  \/ \E t \in Targets, d \in 0..MaxDepthLimit : LimitDepth(t, d)
  \/ \E t \in Targets : ApplySchema(t)
  \/ \E t \in Targets : Calculate(t)
  \/ \E t \in Targets, u \in Targets : CalculationEqual(t, u)

Spec == Init /\ [][Next]_vars

(***************************************************************************)
(* Properties of Spec                                                      *)
(***************************************************************************)
\* C1: on every Expression instance, get_child returns for a name what its
\* first call for that name returned (the identical object, or None), the
\* cache holds that result, and _get_child_impl has run at most once for the
\* name on that instance.
ChildCacheIdempotent ==
  /\ \A k \in DOMAIN calls : calls[k] <= 1
  /\ \A k \in DOMAIN first :
       /\ k[2] \in DOMAIN heap[k[1]].child_cache
       /\ heap[k[1]].child_cache[k[2]] = first[k]
  /\ last.op = "get_child" => last.result = first[<<last.self, last.name>>]

\* A repeated get_child on a depth-limit expression, whose hook builds a
\* fresh object on every invocation.
ChildCacheIdempotentWitness ==
  /\ last.op = "get_child"
  /\ last.cached
  /\ heap[last.self].kind = "DepthLimit"
  /\ last.result # None

IsDepthLimit(e) == heap[e].kind = "DepthLimit"

\* C8: an expression limited to depth 0 has no known field names and no
\* child under any name, whatever its origin has.
DepthZeroHasNothing ==
  /\ \A e \in 1..Len(heap) :
       IsDepthLimit(e) /\ heap[e].depth_limit = 0 =>
         \A n \in DOMAIN heap[e].child_cache : heap[e].child_cache[n] = None
  /\ last.op \in {"get_child", "get_descendant", "known_field_names"}
       /\ IsDepthLimit(last.self) /\ heap[last.self].depth_limit = 0 =>
         CASE last.op = "get_child" -> last.result = None
           [] last.op = "get_descendant" -> last.result = None
           [] last.op = "known_field_names" -> last.result = {}

\* limit_depth(expr, 0) was asked for a child that expr has.
DepthZeroHasNothingWitness ==
  /\ last.op = "get_child"
  /\ IsDepthLimit(last.self)
  /\ heap[last.self].depth_limit = 0
  /\ nops = 2
  /\ heap[heap[last.self].origin].kind = "Mock"
  /\ last.name \in DOMAIN heap[heap[last.self].origin].children

\* What a lookup of path p on the depth-limit expression self has to return.
DepthLimitLookupOk(self, p, result) ==
  LET d == heap[self].depth_limit
      o == get_descendant(Cur, heap[self].origin, p).result
  IN  /\ result # None <=> (Len(p) <= d /\ o # None)
      /\ result # None =>
           /\ IsDepthLimit(result)
           /\ heap[result].depth_limit = d - Len(p)
           /\ heap[result].origin = o
           /\ Len(p) = d => known_field_names(Cur, result).result = {}

\* C9: under a depth limit d, the descendant at p exists exactly when
\* len(p) <= d and the origin has a descendant at p; it is a depth-limit
\* expression over that descendant with the budget d - len(p), and at depth
\* d it reports no known field names.
DepthLimitBudget ==
  /\ last.op = "get_descendant" /\ IsDepthLimit(last.self) =>
       DepthLimitLookupOk(last.self, last.path, last.result)
  /\ last.op = "get_child" /\ IsDepthLimit(last.self) =>
       DepthLimitLookupOk(last.self, <<last.name>>, last.result)

\* A descendant at depth exactly d > 0 whose origin has known fields.
DepthLimitBudgetWitness ==
  /\ last.op = "get_descendant"
  /\ IsDepthLimit(last.self)
  /\ Len(last.path) = heap[last.self].depth_limit
  /\ last.result # None
  /\ heap[heap[last.result].origin].kind = "Mock"
  /\ heap[heap[last.result].origin].known # {}

\* C10: an expression whose calculation_is_identity() is true has exactly
\* one source, and calculate_value_slowly gives for it the node tensor it
\* gives for that source.
IdentityPropagation ==
  /\ \A e \in 1..Len(heap) :
       calculation_is_identity(heap, e) =>
         /\ Len(get_source_expressions(heap, e)) = 1
         /\ calculate_value_slowly(heap, e) =
              calculate_value_slowly(heap, get_source_expressions(heap, e)[1])
  /\ last.op = "calculate" /\ calculation_is_identity(heap, last.expr) =>
       /\ last.result.ok
       /\ last.result =
            calculate_value_slowly(heap, get_source_expressions(heap, last.expr)[1])

\* The identity expression over a field with elements was evaluated.
IdentityPropagationWitness ==
  /\ last.op = "calculate"
  /\ heap[last.expr].kind \in {"Schema", "DepthLimit"}
  /\ last.result.ok
  /\ last.result.tensor.kind = "leaf"
  /\ last.result.tensor.parent_index # <<>>
  /\ last.result.tensor.values # <<>>

\* C11: calculation_equal is reflexive: e.calculation_equal(e) is true for
\* every expression e, whether or not its calculation is the identity.
CalculationEqualReflexive ==
  last.op = "calculation_equal" /\ last.self = last.expr => last.result

(***************************************************************************)
(* SpecPathOrder: three paths are compared with one another.               *)
(***************************************************************************)
MaxOrderLen == 2

\* "a", "ab", and two anonymous fields.
OrderSteps == {StrStep(<<97>>), StrStep(<<97, 98>>), AnonStep(0), AnonStep(1)}

PathsUpTo(steps, n) == UNION {[1..k -> steps] : k \in 0..n}

InitPathOrder ==
  /\ ExprIdle
  /\ pa \in PathsUpTo(OrderSteps, MaxOrderLen)
  /\ pb \in PathsUpTo(OrderSteps, MaxOrderLen)
  /\ pc \in PathsUpTo(OrderSteps, MaxOrderLen)
  /\ px = NA
  /\ pres = NoOp

Compare ==
  /\ pres = NoOp
  /\ pres' = [op |-> "compare",
              lt_ab |-> __lt__(pa, pb), eq_ab |-> __eq__(pa, pb),
              lt_ba |-> __lt__(pb, pa), gt_ab |-> __gt__(pa, pb),
              lt_bc |-> __lt__(pb, pc), lt_ac |-> __lt__(pa, pc)]
  /\ UNCHANGED <<pa, pb, pc, px>>
  /\ UNCHANGED exprVars

NextPathOrder == Compare

SpecPathOrder == InitPathOrder /\ [][NextPathOrder]_vars

\* The first position at which a and b differ, 0 when one is a prefix of
\* the other.
FirstDiff(a, b) ==
  LET n == IF Len(a) < Len(b) THEN Len(a) ELSE Len(b)
      diffs == {i \in 1..n : a[i] # b[i]}
  IN  IF diffs = {} THEN 0 ELSE Min(diffs)

\* C5: the comparison of paths is a strict total order (exactly one of a<b,
\* a==b, b<a; a<b and b<c give a<c); where a and b first differ, an
\* anonymous step is greater than a string step; a strict prefix is less
\* than its extensions.
PathOrderStrictTotal ==
  pres.op = "compare" =>
    /\ \/ pres.lt_ab /\ ~pres.eq_ab /\ ~pres.lt_ba
       \/ ~pres.lt_ab /\ pres.eq_ab /\ ~pres.lt_ba
       \/ ~pres.lt_ab /\ ~pres.eq_ab /\ pres.lt_ba
    /\ pres.gt_ab <=> pres.lt_ba
    /\ pres.lt_ab /\ pres.lt_bc => pres.lt_ac
    /\ LET i == FirstDiff(pa, pb)
       IN  i > 0 /\ pa[i].anon /\ ~pb[i].anon => pres.gt_ab
    /\ Len(pa) < Len(pb) /\ pa = SubSeq(pb, 1, Len(pa)) => pres.lt_ab

\* a < b < c, where b is greater than a by an anonymous step against a
\* string step after a common first step.
PathOrderStrictTotalWitness ==
  /\ pres.op = "compare"
  /\ pres.lt_ab /\ pres.lt_bc
  /\ FirstDiff(pa, pb) = 2
  /\ pb[2].anon /\ ~pa[2].anon

(***************************************************************************)
(* SpecPath: paths are printed and parsed, extended and tested for         *)
(* ancestry.                                                               *)
(***************************************************************************)
MaxPathLen == 2

\* "a", "b-", "_1", the extension "(a.b)" and an anonymous field.
PathSteps ==
  {StrStep(<<97>>), StrStep(<<98, 45>>), StrStep(<<95, 49>>),
   StrStep(<<40, 97, 46, 98, 41>>), AnonStep(1)}

\* The steps get_child is given: "a", an anonymous field, the map step
\* "a[.]", and "a.b" and "", which are no steps.
StepInputs ==
  {NA, AnonStep(2), StrStep(<<97, 91, 46, 93>>), StrStep(<<97, 46, 98>>),
   StrStep(<<>>)}

InitPath ==
  /\ ExprIdle
  /\ pa \in PathsUpTo(PathSteps, MaxPathLen)
  /\ pb \in PathsUpTo(PathSteps, MaxPathLen)
  /\ pc = <<>>
  /\ px \in StepInputs
  /\ pres = NoOp

\* create_path(str(pa))
RoundTrip ==
  /\ pres = NoOp
  /\ pres' = [op |-> "create_path", text |-> __str__(pa),
              result |-> create_path(__str__(pa))]
  /\ UNCHANGED <<pa, pb, pc, px>>
  /\ UNCHANGED exprVars

\* pa.is_ancestor(pb) and pa.is_ancestor(pa)
IsAncestor ==
  /\ pres = NoOp
  /\ pres' = [op |-> "is_ancestor", result |-> is_ancestor(pa, pb),
              self |-> is_ancestor(pa, pa)]
  /\ UNCHANGED <<pa, pb, pc, px>>
  /\ UNCHANGED exprVars

\* pa.get_child(px), and pa.is_ancestor of the child
PathGetChild ==
  /\ pres = NoOp
  /\ LET r == Path_get_child(pa, px)
     IN  pres' = [op |-> "get_child", result |-> r,
                  ancestor |-> r.ok /\ is_ancestor(pa, r.path)]
  /\ UNCHANGED <<pa, pb, pc, px>>
  /\ UNCHANGED exprVars

NextPath ==
  \/ RoundTrip
  \/ IsAncestor
  \/ PathGetChild

SpecPath == InitPath /\ [][NextPath]_vars

\* A path of name steps: strings over [A-Za-z0-9_-], not empty.
NameOnly(path) ==
  \A i \in 1..Len(path) :
    /\ ~path[i].anon
    /\ path[i].str # <<>>
    /\ \A j \in 1..Len(path[i].str) : path[i].str[j] \in SimpleChars

\* C6: for a path p of name steps only, the empty path included,
\* create_path(str(p)) succeeds and equals p.
PathRoundTrip ==
  pres.op = "create_path" /\ NameOnly(pa) =>
    /\ pres.result.ok
    /\ __eq__(pres.result.path, pa)
    /\ pres.result.path = pa

\* A path of two name steps was printed and parsed.
PathRoundTripWitness ==
  /\ pres.op = "create_path"
  /\ NameOnly(pa)
  /\ Len(pa) = 2
  /\ pa[1] # pa[2]

\* C7: p.is_ancestor(p); p.is_ancestor(p.get_child(x)) for a valid step x;
\* and a.is_ancestor(b) with len(a) < len(b) gives a == b.prefix(len(a)).
AncestorLaws ==
  /\ pres.op = "is_ancestor" =>
       /\ pres.self
       /\ pres.result /\ Len(pa) < Len(pb) =>
            /\ __eq__(pa, prefix(pb, Len(pa)))
            /\ pa = SubSeq(pb, 1, Len(pa))
  /\ pres.op = "get_child" /\ StepOk(px) =>
       /\ pres.result.ok
       /\ pres.ancestor

\* A path that is a proper ancestor of another.
AncestorLawsWitness ==
  /\ pres.op = "is_ancestor"
  /\ pres.result
  /\ 0 < Len(pa) /\ Len(pa) < Len(pb)

(***************************************************************************)
(* SpecPromote: a client promotes fields of a mock tree root -> a -> b and *)
(* evaluates expressions.                                                  *)
(***************************************************************************)
MaxTensorLen == 3

\* The parent_index vectors of a level of at most MaxTensorLen elements under
\* a level of n elements: in order, as a prensor holds them.
ParentIndexes(n) ==
  {s \in UNION {[1..k -> 0..(n - 1)] : k \in 0..MaxTensorLen} :
     \A i \in 1..(Len(s) - 1) : s[i] <= s[i + 1]}

ValuesOf(parent_index) == [i \in 1..Len(parent_index) |-> 10 * i]

\* The schema features of the mocks: for "a" a dense feature of fan-out 0,
\* a dense feature of fan-out 2 and a feature that is not dense; for "b" a
\* feature with a value count and one with presence bounds.
DenseFeature(name, n) ==
  [NamedFeature(name) EXCEPT
     !.has_min_fraction = TRUE, !.min_fraction = Frac(1, 1),
     !.vc_has_min = TRUE, !.vc_min = n, !.vc_has_max = TRUE, !.vc_max = n]

PromoteFeats ==
  << DenseFeature(<<97>>, 0),
     DenseFeature(<<97>>, 2),
     NamedFeature(<<97>>),
     [NamedFeature(<<98>>) EXCEPT !.type = "INT", !.vc_has_min = TRUE,
        !.vc_min = 1, !.vc_has_max = TRUE, !.vc_max = 2],
     [NamedFeature(<<98>>) EXCEPT !.type = "INT", !.has_min_count = TRUE,
        !.min_count = 4, !.has_min_fraction = TRUE, !.min_fraction = Frac(1, 2)] >>

ParentFeatures == {None, 1, 2, 3}
OriginFeatures == {None, 4, 5}

\* The mocks: 1 is b, 2 is a, 3 is the root.  A mock of type None returns a
\* ChildNodeTensor, one with a type a LeafNodeTensor.
PromoteTree(ta, tb, ra, rb, fa, fb, G, O) ==
  << MockExpression(rb, tb, EmptyMap, {}, <<>>,
       IF tb = NoType THEN ChildNodeTensor(1, O, rb)
       ELSE LeafNodeTensor(1, O, ValuesOf(O), rb),
       FALSE, fb),
     MockExpression(ra, ta, (NB :> 1), {NB}, <<>>,
       IF ta = NoType THEN ChildNodeTensor(2, G, ra)
       ELSE LeafNodeTensor(2, G, ValuesOf(G), ra),
       FALSE, fa),
     MockExpression(TRUE, NoType, (NA :> 2), {NA}, <<>>,
       RootNodeTensor(3, LevelSize), FALSE, None) >>

PromotePaths == {<<>>, <<NA>>, <<NA, NB>>, <<NA, NX>>, <<NB, NB>>}
\* "c", and an anonymous field as promote_anonymous passes.
PromoteNames == {StrStep(<<99>>), AnonStep(0)}

InitPromote ==
  /\ PathIdle
  /\ \/ \E ta \in {NoType, "int64"}, tb \in {NoType, "int64"},
          ra \in BOOLEAN, rb \in BOOLEAN,
          fa \in ParentFeatures, fb \in OriginFeatures :
            heap = PromoteTree(ta, tb, ra, rb, fa, fb, <<0, 1, 1>>, <<0, 1, 2>>)
     \/ \E G \in ParentIndexes(LevelSize) : \E O \in ParentIndexes(Len(G)) :
            heap = PromoteTree(NoType, "int64", TRUE, FALSE, None, None, G, O)
  /\ feats = PromoteFeats
  /\ schema_msg = [feature |-> <<>>, string_domain |-> {}, int_domain |-> {},
                   float_domain |-> {}]
  /\ calls = EmptyMap
  /\ first = EmptyMap
  /\ top = 3
  /\ held = None
  /\ last = NoOp
  /\ nops = 0

\* promote(top, p, n) by a client that has promoted nothing yet: it goes on
\* with the new root and keeps the promoted expression.
Promote(p, n) ==
  /\ nops < MaxOps
  /\ held = None
  /\ LET r == promote(Cur, top, p, n)
     IN  /\ Commit(r.w)
         /\ top' = IF r.result.ok THEN r.result.root ELSE top
         /\ held' = IF r.result.ok THEN r.result.expr ELSE held
         /\ last' = [op |-> "promote", root |-> top, path |-> p, name |-> n,
                     ok |-> r.result.ok,
                     result |-> r.result.root,
                     expr |-> r.result.expr,
                     new_path |-> r.result.new_path]
  /\ nops' = nops + 1
  /\ UNCHANGED schema_msg
  /\ UNCHANGED pathVars

NextPromote ==
  \/ \E p \in PromotePaths, n \in PromoteNames : Promote(p, n)
  \/ \E t \in Targets : Calculate(t)

SpecPromote == InitPromote /\ [][NextPromote]_vars

IsPromote(e) == heap[e].kind = "Promote"

\* C2: PromoteExpression.calculate on an origin leaf (parent_index O,
\* values V) and an origin parent (parent_index G) returns a leaf of the
\* length of O with parent_index[i] = G[O[i]] and the values V in order.
PromoteIndexTransform ==
  last.op = "calculate" /\ IsPromote(last.expr) =>
    LET origin_value == calculate_value_slowly(heap, heap[last.expr].origin)
        origin_parent_value ==
          calculate_value_slowly(heap, heap[last.expr].origin_parent)
        O == origin_value.tensor.parent_index
        G == origin_parent_value.tensor.parent_index
    IN  /\ origin_value.ok /\ origin_parent_value.ok
        /\ last.result.ok
        /\ last.result.tensor.kind = "leaf"
        /\ Len(last.result.tensor.parent_index) = Len(O)
        /\ \A i \in 1..Len(O) : last.result.tensor.parent_index[i] = G[O[i] + 1]
        /\ last.result.tensor.values = origin_value.tensor.values

\* G = [0,1,1], O = [0,1,2], V = [10,20,30] gave [0,1,1] and [10,20,30].
PromoteIndexTransformWitness ==
  /\ last.op = "calculate"
  /\ IsPromote(last.expr)
  /\ heap[heap[last.expr].origin].calculate_output.parent_index = <<0, 1, 2>>
  /\ heap[heap[last.expr].origin_parent].calculate_output.parent_index = <<0, 1, 1>>
  /\ last.result.ok
  /\ last.result.tensor.parent_index = <<0, 1, 1>>
  /\ last.result.tensor.values = <<10, 20, 30>>

\* C3: the expression promote creates is a leaf of the origin's type whose
\* is_repeated is origin.is_repeated or origin_parent.is_repeated, and the
\* node tensor it calculates has that is_repeated.
PromoteTypeAndRepeated ==
  /\ last.op = "promote" /\ last.ok =>
       LET e == heap[last.expr]
           origin == get_descendant(Cur, last.root, last.path).result
           origin_parent ==
             get_descendant(Cur, last.root, get_parent(last.path).path).result
       IN  /\ e.kind = "Promote"
           /\ e.origin = origin /\ e.origin_parent = origin_parent
           /\ e.type # NoType
           /\ e.type = heap[origin].type
           /\ e.is_repeated =
                (heap[origin].is_repeated \/ heap[origin_parent].is_repeated)
           /\ known_field_names(Cur, last.expr).result = {}
           /\ get_descendant(Cur, last.result, last.new_path).result = last.expr
  /\ last.op = "calculate" /\ IsPromote(last.expr) /\ last.result.ok =>
       /\ last.result.tensor.kind = "leaf"
       /\ last.result.tensor.is_repeated = heap[last.expr].is_repeated
       /\ last.result.tensor.is_repeated =
            (heap[heap[last.expr].origin].is_repeated
               \/ heap[heap[last.expr].origin_parent].is_repeated)

\* An optional field promoted through a repeated parent was evaluated.
PromoteTypeAndRepeatedWitness ==
  /\ last.op = "calculate"
  /\ IsPromote(last.expr)
  /\ last.result.ok
  /\ last.result.tensor.is_repeated
  /\ ~heap[heap[last.expr].origin].is_repeated
  /\ heap[heap[last.expr].origin_parent].is_repeated

\* C4: promote fails when len(path) < 2, when the expression at path is not
\* a leaf, and when the expression at path's parent is a leaf; in every
\* other case where both paths resolve it succeeds.
PromoteFailsExactly ==
  last.op = "promote" =>
    LET origin == get_descendant(Cur, last.root, last.path).result
        origin_parent ==
          IF Len(last.path) = 0 THEN None
          ELSE get_descendant(Cur, last.root, get_parent(last.path).path).result
        resolve == origin # None /\ origin_parent # None
    IN  /\ Len(last.path) < 2 => ~last.ok
        /\ resolve /\ heap[origin].type = NoType => ~last.ok
        /\ resolve /\ heap[origin_parent].type # NoType => ~last.ok
        /\ Len(last.path) >= 2 /\ resolve /\ heap[origin].type # NoType
             /\ heap[origin_parent].type = NoType => last.ok


(***************************************************************************)
(* SpecSchema: a client applies one schema message to an expression, more  *)
(* than once if it likes, and looks into the results.                      *)
(***************************************************************************)
MaxSchemaOps == 4

\* The schema with the global domains "d" and "e" declared in some lists.
SchemaWith(sd, id, fd) ==
  [feature |-> <<1, 2>>, string_domain |-> sd, int_domain |-> id,
   float_domain |-> fd]

SchemaInputs ==
  { SchemaWith({<<100>>, <<101>>}, {<<100>>}, {}),
    SchemaWith({}, {<<100>>}, {<<100>>, <<101>>}),
    SchemaWith({<<101>>}, {}, {<<100>>}),
    SchemaWith({<<100>>}, {}, {}),
    SchemaWith({}, {<<101>>}, {}),
    SchemaWith({}, {}, {}) }

InitSchema ==
  /\ PathIdle
  /\ \E shape \in Shapes :
       LET r == BuildMock(World(<<>>, SchemaFeats, EmptyMap, EmptyMap), shape, <<>>)
       IN  /\ heap = r.w.heap
           /\ top = r.result
  /\ held = None
  /\ feats = SchemaFeats
  /\ schema_msg \in SchemaInputs
  /\ calls = EmptyMap
  /\ first = EmptyMap
  /\ last = NoOp
  /\ nops = 0

\* apply_schema(expr, schema) on the expression the client started from.
SchemaApply ==
  /\ nops < MaxSchemaOps
  /\ LET r == apply_schema(Cur, top, schema_msg)
     IN  /\ Commit(r.w)
         /\ last' = [op |-> "apply_schema", expr |-> top, result |-> r.result]
  /\ nops' = nops + 1
  /\ UNCHANGED <<pathVars, schema_msg, top, held>>

SchemaGetChild(t, n) ==
  /\ nops < MaxSchemaOps
  /\ heap[t].kind = "Schema"
  /\ LET r == get_child(Cur, t, n)
     IN  /\ Commit(r.w)
         /\ last' = [op |-> "get_child", self |-> t, name |-> n, result |-> r.result,
                     cached |-> n \in DOMAIN heap[t].child_cache]
  /\ nops' = nops + 1
  /\ UNCHANGED <<pathVars, schema_msg, top, held>>

SchemaKnownFieldNames(t) ==
  /\ nops < MaxSchemaOps
  /\ heap[t].kind = "Schema"
  /\ LET r == known_field_names(Cur, t)
     IN  /\ Commit(r.w)
         /\ last' = [op |-> "known_field_names", self |-> t, result |-> r.result]
  /\ nops' = nops + 1
  /\ UNCHANGED <<pathVars, schema_msg, top, held>>

NextSchema ==
  \/ SchemaApply
  \/ \E t \in 1..Len(heap), n \in LookupNames \cup {StrStep(<<122>>)} : SchemaGetChild(t, n)
  \/ \E t \in 1..Len(heap) : SchemaKnownFieldNames(t)

SpecSchema == InitSchema /\ [][NextSchema]_vars

\* The feature named field_name among the features ids of the schema as the
\* caller wrote it, or None.
FeatureNamed(ids, field_name) ==
  LET at == {i \in 1..Len(ids) :
               ~field_name.anon /\ SchemaFeats[ids[i]].name = field_name.str}
  IN  IF at = {} THEN None ELSE ids[Min(at)]

\* C12: in the result of apply_schema the root has no schema_feature, and a
\* child whose name is both a child of the original and a feature of the
\* schema at that level is a node with that feature, name cleared and
\* nested features emptied, and with the original child's is_repeated and
\* type.
SchemaFeatureAttached ==
  /\ last.op = "apply_schema" /\ last.result # Raised =>
       heap[last.result].schema_feature = None
  /\ last.op = "get_child" =>
       LET original_child == get_child(Cur, heap[last.self].origin, last.name).result
           feature == FeatureNamed(heap[last.self].child_features, last.name)
       IN  original_child # None /\ feature # None =>
             /\ last.result # None
             /\ heap[last.result].schema_feature = feature
             /\ feats[feature].name = <<>>
             /\ feats[feature].sub = <<>>
             /\ heap[last.result].is_repeated = heap[original_child].is_repeated
             /\ heap[last.result].type = heap[original_child].type

\* C13: on a node made by apply_schema a name resolves exactly when it
\* resolves in the original; a child of the original without a schema
\* feature of its name is returned as the original's own child object, and
\* a schema feature whose name is no child of the original gives None.
SchemaPassThrough ==
  last.op = "get_child" =>
    LET original_child == get_child(Cur, heap[last.self].origin, last.name).result
        feature == FeatureNamed(heap[last.self].child_features, last.name)
    IN  /\ last.result # None <=> original_child # None
        /\ feature = None => last.result = original_child
        /\ feature # None /\ original_child = None => last.result = None

\* A child without a feature was returned unwrapped, after the feature "z",
\* which the original has no child for, was looked up and gave None.
SchemaPassThroughWitness ==
  /\ last.op = "get_child"
  /\ FeatureNamed(heap[last.self].child_features, last.name) = None
  /\ last.result # None
  /\ heap[last.result].kind = "Mock"
  /\ last.result = heap[heap[last.self].origin].children[last.name]
  /\ <<last.self, StrStep(<<122>>)>> \in DOMAIN first
  /\ first[<<last.self, StrStep(<<122>>)>>] = None

\* C14: known_field_names() of a node made by apply_schema is the union of
\* the original's known_field_names() and the names of the schema features
\* at that level that resolve to a child of the original.
SchemaKnownNamesUnion ==
  last.op = "known_field_names" =>
    LET original == heap[last.self].origin
        child_features == heap[last.self].child_features
    IN  last.result =
          known_field_names(Cur, original).result \cup
          { StrStep(SchemaFeats[child_features[i]].name) : i \in
              { j \in 1..Len(child_features) :
                  get_child(Cur, original,
                            StrStep(SchemaFeats[child_features[j]].name)).result # None } }

\* The features of the schema as the caller wrote it, at every depth.
RECURSIVE AllFeatures(_)
AllFeatures(ids) ==
  IF ids = <<>> THEN {}
  ELSE {Head(ids)} \cup AllFeatures(SchemaFeats[Head(ids)].sub)
                   \cup AllFeatures(Tail(ids))

\* The list a domain name is found in: string, then int, then float.
DomainFoundIn(schema, name) ==
  IF name \in schema.string_domain THEN "string_domain"
  ELSE IF name \in schema.int_domain THEN "int_domain"
  ELSE IF name \in schema.float_domain THEN "float_domain"
  ELSE "none"

\* C15: apply_schema fails exactly when some feature of the schema, at any
\* depth, refers to a domain that none of the schema's string, int and float
\* domain lists declares; otherwise every referring feature holds a copy of
\* the domain of that name from the first of the three lists that has it.
UnknownDomainFails ==
  last.op = "apply_schema" =>
    LET referring == {f \in AllFeatures(schema_msg.feature) : SchemaFeats[f].has_domain}
    IN  /\ last.result = Raised <=>
             \E f \in referring :
               DomainFoundIn(schema_msg, SchemaFeats[f].domain) = "none"
        /\ last.result # Raised =>
             \A f \in referring :
               /\ feats[f].domain_copy = DomainFoundIn(schema_msg, SchemaFeats[f].domain)
               /\ feats[f].domain = SchemaFeats[f].domain

\* A schema that declares "d" both as an int and as a float domain was
\* applied: the nested feature referring to "d" holds the int domain.
UnknownDomainFailsWitness ==
  /\ last.op = "apply_schema"
  /\ last.result # Raised
  /\ SchemaFeats[4].has_domain
  /\ 4 \in AllFeatures(schema_msg.feature) \ {schema_msg.feature[i] : i \in 1..2}
  /\ SchemaFeats[4].domain \in schema_msg.int_domain \cap schema_msg.float_domain
  /\ feats[4].domain_copy = "int_domain"

(***************************************************************************)
(* SpecFusion: the schema feature of a promoted field, computed from the   *)
(* features of the origin (feats[1]) and of its parent (feats[2]).         *)
(***************************************************************************)
MaxFanOut == 2

\* The values of schema_pb2.LifecycleStage that promote.py names; a feature
\* without a stage reads UNKNOWN_STAGE.
LifecycleStages ==
  {"UNKNOWN_STAGE", "PLANNED", "ALPHA", "BETA", "PRODUCTION", "DEPRECATED",
   "DEBUG_ONLY"}

\* A feature with a stage, the value_count vc = <<has min, min, has max, max>>
\* and presence bounds.
WithBounds(stage, vc, has_min_fraction, min_fraction, has_min_count, min_count) ==
  [NewFeature EXCEPT
     !.lifecycle_stage = stage,
     !.vc_has_min = vc[1], !.vc_min = vc[2],
     !.vc_has_max = vc[3], !.vc_max = vc[4],
     !.has_min_fraction = has_min_fraction, !.min_fraction = min_fraction,
     !.has_min_count = has_min_count, !.min_count = min_count]

FusionParents ==
  { WithBounds(stage, vc, mf.has, mf.value, FALSE, 0) :
      stage \in LifecycleStages,
      vc \in {<<FALSE, 0, FALSE, 0>>} \cup
             {<<TRUE, n, FALSE, 0>> : n \in 0..MaxFanOut} \cup
             {<<TRUE, n, TRUE, n>> : n \in 0..MaxFanOut} \cup
             {<<TRUE, n, TRUE, n + 1>> : n \in 0..MaxFanOut},
      mf \in {[has |-> FALSE, value |-> Frac(0, 1)],
              [has |-> TRUE, value |-> Frac(1, 1)],
              [has |-> TRUE, value |-> Frac(1, 2)]} }

FusionOrigins ==
  { [WithBounds(stage, vc, pr.has_mf, pr.mf, pr.has_mc, pr.mc) EXCEPT !.type = "INT"] :
      stage \in LifecycleStages,
      vc \in {<<FALSE, 0, FALSE, 0>>, <<TRUE, 1, FALSE, 0>>, <<TRUE, 1, TRUE, 2>>},
      pr \in {[has_mf |-> FALSE, mf |-> Frac(0, 1), has_mc |-> FALSE, mc |-> 0],
              [has_mf |-> TRUE, mf |-> Frac(1, 1), has_mc |-> FALSE, mc |-> 0],
              [has_mf |-> TRUE, mf |-> Frac(1, 2), has_mc |-> FALSE, mc |-> 0],
              [has_mf |-> FALSE, mf |-> Frac(0, 1), has_mc |-> TRUE, mc |-> 4]} }

InitFusion ==
  /\ PathIdle
  /\ heap = <<>>
  /\ \E o \in FusionOrigins, pf \in FusionParents : feats = <<o, pf>>
  /\ schema_msg = SchemaWith({}, {}, {})
  /\ calls = EmptyMap
  /\ first = EmptyMap
  /\ top = None
  /\ held = None
  /\ last = NoOp
  /\ nops = 0

\* _get_promote_schema_feature(original, parent), once.
Fuse(original, parent) ==
  /\ nops = 0
  /\ LET r == _get_promote_schema_feature(Cur, original, parent)
     IN  /\ Commit(r.w)
         /\ last' = [op |-> "promote_schema_feature", original |-> original,
                     parent |-> parent, result |-> r.result]
  /\ nops' = nops + 1
  /\ UNCHANGED <<pathVars, schema_msg, top, held>>

NextFusion ==
  \E a \in {<<1, 2>>, <<2, 1>>, <<None, 2>>, <<1, None>>} : Fuse(a[1], a[2])

SpecFusion == InitFusion /\ [][NextFusion]_vars

\* The order of the stages, lowest first; a stage that is not set stands
\* between DEBUG_ONLY and UNKNOWN_STAGE.
StageOrder ==
  <<"DEPRECATED", "PLANNED", "ALPHA", "DEBUG_ONLY", "unset", "UNKNOWN_STAGE",
    "BETA", "PRODUCTION">>

StageRank(a) == CHOOSE i \in 1..Len(StageOrder) : StageOrder[i] = a

Fused == last.op = "promote_schema_feature" /\ last.original # None /\ last.parent # None

\* C16: when the origin and the parent both carry a schema feature, the
\* stage of the promoted field is computed for every pair of stages, it is
\* the lesser of the two in the order of StageOrder, and it is the same
\* when the two inputs change places.
LifecycleStageIsMin ==
  Fused =>
    LET a == feats[last.original].lifecycle_stage
        b == feats[last.parent].lifecycle_stage
    IN  /\ _min_lifecycle_stage(a, b) # "Raised"
        /\ _min_lifecycle_stage(a, b) = _min_lifecycle_stage(b, a)
        /\ _min_lifecycle_stage(a, b) =
             (IF StageRank(a) <= StageRank(b) THEN a ELSE b)
        /\ last.result # Raised =>
             feats[last.result].lifecycle_stage =
               (IF StageRank(a) <= StageRank(b) THEN a ELSE b)

\* The parent's stage is the lesser one, and on the side of the unset
\* position opposite to the origin's.
LifecycleStageIsMinWitness ==
  /\ Fused
  /\ last.result # Raised
  /\ feats[last.original].lifecycle_stage = "BETA"
  /\ feats[last.parent].lifecycle_stage = "DEBUG_ONLY"
  /\ feats[last.result].lifecycle_stage = "DEBUG_ONLY"

\* C17: the feature of a promoted field has value-count and presence bounds
\* only under a dense parent (presence.min_fraction = 1, value_count.min and
\* max both set and equal); then value_count.min and max are the origin's
\* times the parent's fan-out, each set exactly when the origin has it.
FusionBoundsOnlyWhenDense ==
  Fused /\ last.result # Raised =>
    LET o == feats[last.original]
        pf == feats[last.parent]
        r == feats[last.result]
        dense == /\ pf.min_fraction.num = pf.min_fraction.den
                 /\ pf.vc_has_min /\ pf.vc_has_max /\ pf.vc_min = pf.vc_max
    IN  /\ ~dense => /\ ~r.vc_has_min /\ ~r.vc_has_max
                     /\ ~r.has_min_fraction /\ ~r.has_min_count
        /\ dense => /\ r.vc_has_min = o.vc_has_min
                    /\ r.vc_has_max = o.vc_has_max
                    /\ o.vc_has_min => r.vc_min = o.vc_min * pf.vc_min
                    /\ o.vc_has_max => r.vc_max = o.vc_max * pf.vc_min

\* A dense parent with fan-out 2 over an origin with 1 to 2 values.
FusionBoundsOnlyWhenDenseWitness ==
  /\ Fused
  /\ last.result # Raised
  /\ feats[last.parent].vc_has_min /\ feats[last.parent].vc_has_max
  /\ feats[last.parent].vc_min = 2 /\ feats[last.parent].vc_max = 2
  /\ feats[last.parent].min_fraction = Frac(1, 1)
  /\ feats[last.original].vc_has_min /\ feats[last.original].vc_min = 1
  /\ feats[last.original].vc_has_max /\ feats[last.original].vc_max = 2
  /\ feats[last.result].vc_min = 2
  /\ feats[last.result].vc_max = 4

(***************************************************************************)
(* size, has and the two index fields, as calculations on node tensors;    *)
(* and SpecSize: a client derives them from the field a.b of a mock tree.  *)
(***************************************************************************)
\* The sum of one per element into the segment of its parent.
RECURSIVE segment_count(_, _)
segment_count(parent_index, counts) ==
  IF parent_index = <<>> THEN counts
  ELSE segment_count(Tail(parent_index),
                     [counts EXCEPT ![Head(parent_index) + 1] = @ + 1])

size_calculate_present_only(origin_value, origin_parent_value) ==
  LET present == {origin_value.parent_index[i] :
                    i \in 1..Len(origin_value.parent_index)}
      n == Cardinality(present)
      nth(j) == CHOOSE x \in present : Cardinality({y \in present : y < x}) = j - 1
  IN  LeafNodeTensor(0, [j \in 1..n |-> nth(j)],
        [j \in 1..n |->
           Cardinality({i \in 1..Len(origin_value.parent_index) :
                          origin_value.parent_index[i] = nth(j)})],
        FALSE)

\* size: one count per element of the parent level.
size_calculate(origin_value, origin_parent_value) ==
  LET n == IF origin_parent_value.kind = "root" THEN origin_parent_value.size
           ELSE Len(origin_parent_value.parent_index)
  IN  LeafNodeTensor(0, [j \in 1..n |-> j - 1],
        segment_count(origin_value.parent_index, [j \in 1..n |-> 0]), FALSE)

has_calculate_always(size_value) ==
  LeafNodeTensor(0, size_value.parent_index,
                 [j \in 1..Len(size_value.values) |-> TRUE], FALSE)

\* has: the size field, mapped to "is not zero".
has_calculate(size_value) ==
  LeafNodeTensor(0, size_value.parent_index,
                 [j \in 1..Len(size_value.values) |-> size_value.values[j] # 0],
                 FALSE)

get_positional_index_calculate_global(origin_value) ==
  LeafNodeTensor(0, origin_value.parent_index,
                 [i \in 1..Len(origin_value.parent_index) |-> i - 1], TRUE)

\* get_positional_index: the position of an element less the position at
\* which the run of its parent starts.
get_positional_index_calculate(origin_value) ==
  LET parent_index == origin_value.parent_index
  IN  LeafNodeTensor(0, parent_index,
        [i \in 1..Len(parent_index) |->
           i - Min({k \in 1..Len(parent_index) : parent_index[k] = parent_index[i]})],
        TRUE)

\* get_index_from_end: the positional index less the size of the parent's
\* run.
get_index_from_end_calculate(positional_index, size_value) ==
  LET sizes == gather(size_value.values, positional_index.parent_index)
  IN  LeafNodeTensor(0, positional_index.parent_index,
        [i \in 1..Len(sizes) |-> positional_index.values[i] - sizes[i]], TRUE)

MaxFieldLen == 5
MaxParents == 4

\* The parent_index vectors of a field of at most MaxFieldLen elements under
\* n parents, in order.
FieldIndexes(n) ==
  {s \in UNION {[1..k -> 0..(n - 1)] : k \in 0..MaxFieldLen} :
     \A i \in 1..(Len(s) - 1) : s[i] <= s[i + 1]}

\* The mocks: 1 is the repeated field b, 2 its parent a with n elements, 3
\* the root.
InitSize ==
  /\ PathIdle
  /\ \E n \in 0..MaxParents : \E O \in FieldIndexes(n) :
       heap = PromoteTree(NoType, "int64", TRUE, TRUE, None, None,
                          [i \in 1..n |-> 0], O)
  /\ feats = <<>>
  /\ schema_msg = SchemaWith({}, {}, {})
  /\ calls = EmptyMap
  /\ first = EmptyMap
  /\ top = 3
  /\ held = None
  /\ last = NoOp
  /\ nops = 0

\* The node tensor of a source, as calculate_value_slowly passes it on.
SourceValue(e) == calculate_value_slowly(heap, e).tensor

\* size(root, a.b, name), then calculate_value_slowly of the new field.
Size ==
  /\ nops = 0
  /\ last' = [op |-> "size", result |-> size_calculate(SourceValue(1), SourceValue(2))]
  /\ nops' = nops + 1
  /\ UNCHANGED <<pathVars, heap, feats, schema_msg, calls, first, top, held>>

Has ==
  /\ nops = 0
  /\ last' = [op |-> "has",
              result |-> has_calculate(size_calculate(SourceValue(1), SourceValue(2)))]
  /\ nops' = nops + 1
  /\ UNCHANGED <<pathVars, heap, feats, schema_msg, calls, first, top, held>>

GetPositionalIndex ==
  /\ nops = 0
  /\ last' = [op |-> "get_positional_index",
              result |-> get_positional_index_calculate(SourceValue(1))]
  /\ nops' = nops + 1
  /\ UNCHANGED <<pathVars, heap, feats, schema_msg, calls, first, top, held>>

GetIndexFromEnd ==
  /\ nops = 0
  /\ last' = [op |-> "get_index_from_end",
              result |-> get_index_from_end_calculate(
                           get_positional_index_calculate(SourceValue(1)),
                           size_calculate(SourceValue(1), SourceValue(2)))]
  /\ nops' = nops + 1
  /\ UNCHANGED <<pathVars, heap, feats, schema_msg, calls, first, top, held>>

NextSize == Size \/ Has \/ GetPositionalIndex \/ GetIndexFromEnd

SpecSize == InitSize /\ [][NextSize]_vars

\* The parent_index of the field, the number of its parents, and the number
\* of elements of the field under parent j.
FieldP == heap[1].calculate_output.parent_index
FieldParents == Len(heap[2].calculate_output.parent_index)
ChildCount(j) == Cardinality({i \in 1..Len(FieldP) : FieldP[i] = j})

\* C18: size over a field with parent_index P under n parents is a
\* non-repeated leaf with parent_index 0..n-1 whose value for parent j is the
\* number of i with P[i] = j, 0 for a parent without a child; has gives the
\* same parent_index and, for parent j, whether that number is above 0.
SizeCountsChildren ==
  /\ last.op \in {"size", "has"} =>
       /\ last.result.kind = "leaf"
       /\ ~last.result.is_repeated
       /\ last.result.parent_index = [j \in 1..FieldParents |-> j - 1]
       /\ Len(last.result.values) = FieldParents
  /\ last.op = "size" =>
       \A j \in 1..FieldParents : last.result.values[j] = ChildCount(j - 1)
  /\ last.op = "has" =>
       \A j \in 1..FieldParents : last.result.values[j] = (ChildCount(j - 1) > 0)

\* The size of a field with a parent that has two children, one that has
\* none in the middle, and one that has one.
SizeCountsChildrenWitness ==
  /\ last.op = "size"
  /\ FieldP = <<0, 0, 2>>
  /\ FieldParents = 3
  /\ last.result.values = <<2, 0, 1>>

\* C19 as stated: for the field with parent_index [0,1,1,2] under 3 parents
\* size gives [1,2,0] and has gives [true,true,false].
SizeScenarioAsStated ==
  FieldP = <<0, 1, 1, 2>> /\ FieldParents = 3 =>
    /\ last.op = "size" => last.result.values = <<1, 2, 0>>
    /\ last.op = "has" => last.result.values = <<TRUE, TRUE, FALSE>>

\* C19, amended: for the field with parent_index [0,1,1,2] under 3 parents
\* size gives [1,2,1] and has gives [true,true,true]; for a field with
\* parent_index [0,1] under 3 parents size gives [1,1,0] and has gives
\* [true,true,false].
SizeScenario ==
  /\ FieldP = <<0, 1, 1, 2>> /\ FieldParents = 3 =>
       /\ last.op = "size" => last.result.values = <<1, 2, 1>>
       /\ last.op = "has" => last.result.values = <<TRUE, TRUE, TRUE>>
  /\ FieldP = <<0, 1>> /\ FieldParents = 3 =>
       /\ last.op = "size" => last.result.values = <<1, 1, 0>>
       /\ last.op = "has" => last.result.values = <<TRUE, TRUE, FALSE>>

\* size over the field with parent_index [0,1,1,2] under 3 parents.
SizeScenarioWitness ==
  /\ last.op = "size"
  /\ FieldP = <<0, 1, 1, 2>>
  /\ FieldParents = 3
  /\ last.result.parent_index = <<0, 1, 2>>
  /\ last.result.values[3] = 1

MaxThreads == 2
MaxAnonCalls == 2

\* A thread outside get_anonymous_field; returned are the ids its calls gave.
AnonThread == [pc |-> "idle", result |-> 0, loaded |-> 0, returned |-> <<>>]

InitAnon ==
  /\ pa = <<>> /\ pb = <<>> /\ pc = <<>> /\ px = NA /\ pres = NoOp
  /\ heap = <<>> /\ feats = <<>> /\ calls = EmptyMap /\ first = EmptyMap
  /\ schema_msg = [feature |-> <<>>, string_domain |-> {}, int_domain |-> {},
               float_domain |-> {}]
  /\ top = None /\ held = None /\ last = NoOp /\ nops = 0
  /\ _NEXT_ANONYMOUS_FIELD = 0
  /\ threads = [t \in 1..MaxThreads |-> AnonThread]

AnonUnchanged == UNCHANGED <<pa, pb, pc, px, pres, heap, feats, schema_msg, calls, first, top, held, last, nops>>

\* result = _NEXT_ANONYMOUS_FIELD
AnonRead(t) ==
  /\ threads[t].pc = "idle"
  /\ Len(threads[t].returned) < MaxAnonCalls
  /\ threads' = [threads EXCEPT ![t].pc = "read",
                                ![t].result = _NEXT_ANONYMOUS_FIELD]
  /\ UNCHANGED _NEXT_ANONYMOUS_FIELD
  /\ AnonUnchanged

\* _NEXT_ANONYMOUS_FIELD += 1, first half: the global is loaded.
AnonLoad(t) ==
  /\ threads[t].pc = "read"
  /\ threads' = [threads EXCEPT ![t].pc = "loaded",
                                ![t].loaded = _NEXT_ANONYMOUS_FIELD]
  /\ UNCHANGED _NEXT_ANONYMOUS_FIELD
  /\ AnonUnchanged

\* _NEXT_ANONYMOUS_FIELD += 1, second half: the sum is stored; return result.
AnonStore(t) ==
  /\ threads[t].pc = "loaded"
  /\ _NEXT_ANONYMOUS_FIELD' = threads[t].loaded + 1
  /\ threads' = [threads EXCEPT ![t].pc = "idle",
                                ![t].returned = Append(@, threads[t].result)]
  /\ AnonUnchanged

NextAnon ==
  \/ \E t \in 1..MaxThreads : AnonRead(t)
  \/ \E t \in 1..MaxThreads : AnonLoad(t)
  \/ \E t \in 1..MaxThreads : AnonStore(t)

SpecAnon == InitAnon /\ [][NextAnon]_vars

\* C21: every call of get_anonymous_field returns an id that no other call
\* returns, whichever way the calls of the threads interleave, and the calls
\* one thread makes one after the other return strictly increasing ids.
AnonymousIdsUnique ==
  LET Calls == {<<t, i>> \in (1..MaxThreads) \X (1..MaxAnonCalls) : i <= Len(threads[t].returned)}
  IN  /\ \A c \in Calls, d \in Calls :
           c # d => threads[c[1]].returned[c[2]] # threads[d[1]].returned[d[2]]
      /\ \A c \in Calls, d \in Calls :
           (c[1] = d[1] /\ c[2] < d[2]) =>
             threads[c[1]].returned[c[2]] < threads[d[1]].returned[d[2]]

\* ---------------------------------------------------------------------------
\* Expression.get_child called from several threads on one expression
\* ---------------------------------------------------------------------------

MaxRaceCalls == 2

\* A thread outside get_child; returned are the (name, result) of its calls.
RaceThread == [pc |-> "idle", name |-> NA, result |-> None, returned |-> <<>>]

\* A mock tree and over its root a new root, made by limit_depth or by
\* apply_schema; the threads share the new root (top).
InitRace ==
  /\ pa = <<>> /\ pb = <<>> /\ pc = <<>> /\ px = NA /\ pres = NoOp
  /\ schema_msg \in Schemas
  /\ \E shape \in Shapes, d \in 0..MaxDepthLimit :
       LET r == BuildMock(World(<<>>, SchemaFeats, EmptyMap, EmptyMap), shape, <<>>)
           n == IF d = 0 THEN apply_schema(r.w, r.result, schema_msg)
                ELSE limit_depth(r.w, r.result, d)
       IN  /\ n.result # Raised
           /\ heap = n.w.heap
           /\ feats = n.w.feats
           /\ held = r.result
           /\ top = n.result
  /\ calls = EmptyMap
  /\ first = EmptyMap
  /\ last = NoOp
  /\ nops = 0
  /\ _NEXT_ANONYMOUS_FIELD = 0
  /\ threads = [t \in 1..MaxThreads |-> RaceThread]

RaceUnchanged == UNCHANGED <<pa, pb, pc, px, pres, schema_msg, top, held, last, nops, _NEXT_ANONYMOUS_FIELD>>

\* get_child: if field_name in self._child_cache: return the cached result
RaceCheck(t, n) ==
  /\ threads[t].pc = "idle"
  /\ Len(threads[t].returned) < MaxRaceCalls
  /\ threads' =
       IF n \in DOMAIN heap[top].child_cache
         THEN [threads EXCEPT ![t].returned = Append(@, <<n, heap[top].child_cache[n]>>)]
         ELSE [threads EXCEPT ![t].pc = "impl", ![t].name = n]
  /\ UNCHANGED <<heap, feats, calls, first>>
  /\ RaceUnchanged

\* get_child: result = self._get_child_impl(field_name)
RaceImpl(t) ==
  /\ threads[t].pc = "impl"
  /\ LET r == _get_child_impl(Cur, top, threads[t].name)
     IN  /\ Commit(r.w)
         /\ threads' = [threads EXCEPT ![t].pc = "store", ![t].result = r.result]
  /\ RaceUnchanged

\* get_child: self._child_cache[field_name] = result; return result
RaceStore(t) ==
  /\ threads[t].pc = "store"
  /\ heap' = [heap EXCEPT ![top].child_cache = (threads[t].name :> threads[t].result) @@ @]
  /\ threads' = [threads EXCEPT ![t].pc = "idle",
                                ![t].returned = Append(@, <<threads[t].name, threads[t].result>>)]
  /\ UNCHANGED <<feats, calls, first>>
  /\ RaceUnchanged

NextRace ==
  \/ \E t \in 1..MaxThreads, n \in LookupNames : RaceCheck(t, n)
  \/ \E t \in 1..MaxThreads : RaceImpl(t)
  \/ \E t \in 1..MaxThreads : RaceStore(t)

SpecRace == InitRace /\ [][NextRace]_vars

\* C22: all the get_child calls of the threads with one name on one
\* expression return the identical object, also when the first calls run
\* concurrently, and the cache holds what they returned.
ConcurrentGetChildIdentical ==
  \A t \in 1..MaxThreads, u \in 1..MaxThreads :
    \A i \in 1..Len(threads[t].returned), j \in 1..Len(threads[u].returned) :
      threads[t].returned[i][1] = threads[u].returned[j][1] =>
        /\ threads[t].returned[i][2] = threads[u].returned[j][2]
        /\ heap[top].child_cache[threads[t].returned[i][1]] = threads[t].returned[i][2]

\* ---------------------------------------------------------------------------
\* Expression.get_known_children and get_known_descendants (expression.py),
\* and a new root over an original expression
\* ---------------------------------------------------------------------------

\* The result of get_known_children and get_known_descendants: a mapping,
\* or the KeyError of get_child_or_error.
Mapping(m) == [ok |-> TRUE, map |-> m]
NoMapping == [ok |-> FALSE, map |-> EmptyMap]

\* The loop of get_known_children: result[name] = self.get_child_or_error(name)
RECURSIVE get_known_children_loop(_, _, _, _)
get_known_children_loop(w, self, names, result) ==
  IF names = {} THEN Ret(w, Mapping(result))
  ELSE The({ The({ IF r.result = None THEN Ret(r.w, NoMapping)
                    ELSE get_known_children_loop(r.w, self, names \ {name},
                                                 (name :> r.result) @@ result)
                    : r \in {get_child(w, self, name)} })
             : name \in {CHOOSE n \in names : TRUE} })

\* Expression.get_known_children
get_known_children(w, self) ==
  The({ get_known_children_loop(k.w, self, k.result, EmptyMap)
        : k \in {known_field_names(w, self)} })

RECURSIVE get_known_descendants(_, _)

\* The known descendants of the children, each path below its field name.
RECURSIVE get_known_descendants_loop(_, _, _, _)
get_known_descendants_loop(w, children, names, result) ==
  IF names = {} THEN Ret(w, Mapping(result))
  ELSE The({ The({ IF ~s.result.ok THEN s
                    ELSE get_known_descendants_loop(s.w, children, names \ {field_name},
                           [p \in {<<field_name>> \o q : q \in DOMAIN s.result.map} |->
                              s.result.map[Tail(p)]] @@ result)
                    : s \in {get_known_descendants(w, children[field_name])} })
             : field_name \in {CHOOSE n \in names : TRUE} })

\* Expression.get_known_descendants
get_known_descendants(w, self) ==
  The({ IF ~c.result.ok THEN c
        ELSE The({ IF ~r.result.ok THEN r
                   ELSE Ret(r.w, Mapping((<<>> :> self) @@ r.result.map))
                   : r \in {get_known_descendants_loop(c.w, c.result.map,
                                                       DOMAIN c.result.map, EmptyMap)} })
        : c \in {get_known_children(w, self)} })

\* An original expression over a mock tree (the mock root itself, a schema
\* applied to it, or a depth limit on it) and a new root built over the
\* original with apply_schema or limit_depth; top is the new root.
InitFrame ==
  /\ PathIdle
  /\ schema_msg \in Schemas
  /\ \E shape \in Shapes, kinds \in {"Mock", "Schema", "DepthLimit"} \X {"Schema", "DepthLimit"} :
       LET r == BuildMock(World(<<>>, SchemaFeats, EmptyMap, EmptyMap), shape, <<>>)
           o == CASE kinds[1] = "Mock" -> r
                  [] kinds[1] = "Schema" -> apply_schema(r.w, r.result, schema_msg)
                  [] kinds[1] = "DepthLimit" -> limit_depth(r.w, r.result, MaxDepthLimit)
           n == IF o.result = Raised THEN o
                ELSE IF kinds[2] = "Schema" THEN apply_schema(o.w, o.result, schema_msg)
                ELSE limit_depth(o.w, o.result, MaxDepthLimit)
       IN  /\ n.result # Raised
           /\ heap = n.w.heap
           /\ feats = n.w.feats
           /\ top = n.result
  /\ held = None
  /\ calls = EmptyMap
  /\ first = EmptyMap
  /\ last = NoOp
  /\ nops = 0

GetKnownDescendants(t) ==
  /\ nops < MaxOps
  /\ LET r == get_known_descendants(Cur, t)
     IN  /\ Commit(r.w)
         /\ last' = [op |-> "get_known_descendants", self |-> t, result |-> r.result]
  /\ nops' = nops + 1
  /\ UNCHANGED <<pathVars, schema_msg, top, held>>

\* The calls made on the new root and on what it returned.
NextFrame ==
  \/ \E t \in Targets, n \in LookupNames : GetChild(t, n)
  \/ \E t \in Targets, p \in LookupPaths : GetDescendant(t, p)
  \/ \E t \in Targets : KnownFieldNames(t)
  \/ \E t \in Targets : GetKnownDescendants(t)

SpecFrame == InitFrame /\ [][NextFrame]_vars

\* The paths below self that follow known field names level by level.
RECURSIVE KnownPaths(_, _)
KnownPaths(w, self) ==
  The({ {<<>>} \cup UNION { The({ IF c.result = None THEN {}
                                  ELSE {<<n>> \o q : q \in KnownPaths(c.w, c.result)}
                                  : c \in {get_child(k.w, self, n)} })
                            : n \in k.result }
        : k \in {known_field_names(w, self)} })

\* C24: get_known_descendants() of e maps the empty path to e and every path
\* that follows known field names level by level to the very object
\* e.get_descendant(p) returns, and has no other key.
KnownDescendantsExact ==
  last.op = "get_known_descendants" =>
    /\ last.result.ok
    /\ last.result.map[<<>>] = last.self
    /\ \A p \in DOMAIN last.result.map :
         get_descendant(Cur, last.self, p).result = last.result.map[p]
    /\ DOMAIN last.result.map = KnownPaths(Cur, last.self)

\* The expressions reachable from e: its origin, its cached children and,
\* of a mock, its children.
RECURSIVE ReachableFrom(_, _, _)
ReachableFrom(h, frontier, seen) ==
  IF frontier = {} THEN seen
  ELSE LET i == CHOOSE x \in frontier : TRUE
           next == ({h[i].origin, h[i].origin_parent}
                    \cup {h[i].child_cache[n] : n \in DOMAIN h[i].child_cache}
                    \cup {h[i].children[n] : n \in DOMAIN h[i].children}) \ {None}
       IN  ReachableFrom(h, (frontier \cup next) \ (seen \cup {i}), seen \cup {i})

\* What a client can observe of expression i, apart from its child cache:
\* known_field_names() and, for every name, whether get_child finds a child.
Observed(w, i) ==
  [is_repeated |-> w.heap[i].is_repeated,
   type |-> w.heap[i].type,
   schema_feature |-> w.heap[i].schema_feature,
   feature |-> IF w.heap[i].schema_feature = None THEN <<>>
               ELSE <<w.feats[w.heap[i].schema_feature]>>,
   known_field_names |-> known_field_names(w, i).result,
   sources |-> get_source_expressions(w.heap, i),
   children |-> {n \in LookupNames : get_child(w, i, n).result # None}]

\* C23: a call on the new root, or on what it returned, leaves the original
\* and every expression reachable from it as it was in is_repeated, type,
\* schema_feature, known_field_names, sources and in what get_child finds;
\* the child cache only gains entries.
OriginalUnchanged ==
  [][\A i \in ReachableFrom(heap, {heap[top].origin}, {}) :
       /\ Observed(World(heap', feats', calls', first'), i) = Observed(Cur, i)
       /\ \A n \in DOMAIN heap[i].child_cache :
            /\ n \in DOMAIN heap'[i].child_cache
            /\ heap'[i].child_cache[n] = heap[i].child_cache[n]]_vars

\* ---------------------------------------------------------------------------
\* Further properties of the fusion of schema features (promote.py)
\* ---------------------------------------------------------------------------

\* C25: the schema feature made for a promoted field never has
\* presence.min_count, whatever the features of the origin and of the
\* parent are.
PromotedNeverHasMinCount ==
  Fused /\ last.result # Raised => ~feats[last.result].has_min_count

\* C29: the fusion returns a feature for every origin feature and every
\* parent feature, also under a dense parent of fan-out 0; it never fails on
\* the division by the fan-out.
FusionIsTotal ==
  Fused => last.result # Raised

\* ---------------------------------------------------------------------------
\* Further properties of apply_schema (apply_schema.py)
\* ---------------------------------------------------------------------------

\* C27: known_field_names() of a node made by apply_schema gives the same
\* set on every call: the answer just given is the answer the next call
\* gives, whatever calls came before.
SchemaKnownNamesStable ==
  last.op = "known_field_names" =>
    known_field_names(Cur, last.self).result = last.result

\* C28: apply_schema and the lookups on its results leave the schema message
\* of the caller as it was: every feature keeps its name, its nested
\* features and its reference to a domain.
SchemaMessageUnchanged ==
  last.op \in {"apply_schema", "get_child", "known_field_names"} =>
    \A f \in 1..Len(SchemaFeats) :
      /\ feats[f].name = SchemaFeats[f].name
      /\ feats[f].sub = SchemaFeats[f].sub
      /\ feats[f].has_domain = SchemaFeats[f].has_domain

\* C30: every node of limit_depth(expr, d) reports the is_repeated, the type
\* and the schema_feature of the node of expr at the same path (its origin).
DepthLimitKeepsAttributes ==
  \A i \in 1..Len(heap) :
    heap[i].kind = "DepthLimit" =>
      /\ heap[i].is_repeated = heap[heap[i].origin].is_repeated
      /\ heap[i].type = heap[heap[i].origin].type
      /\ heap[i].schema_feature = heap[heap[i].origin].schema_feature

\* ---------------------------------------------------------------------------
\* calculate_value_slowly, call by call (test/expression_test_util.py)
\* ---------------------------------------------------------------------------

MaxNodes == 3
MaxSources == 2

\* The sequences over S of length up to n.
SeqsUpTo(S, n) == UNION {[1..k -> S] : k \in 0..n}

\* The source graphs: node i lists its sources among the nodes before it, so
\* the graph is acyclic; a node may be listed by several nodes, and twice by one.
RECURSIVE SourceGraphs(_)
SourceGraphs(n) ==
  IF n = 0 THEN {<<>>}
  ELSE {Append(g, s) : g \in SourceGraphs(n - 1), s \in SeqsUpTo(1..(n - 1), MaxSources)}

\* One mock leaf per node of the graph, sources first.
RECURSIVE BuildGraph(_, _)
BuildGraph(w, g) ==
  IF g = <<>> THEN w
  ELSE BuildGraph(get_mock_leaf(w, TRUE, "int64", Head(g), FALSE).w,
                  Tail(g))

\* threads[1] is the stack of the calculate_value_slowly calls that have not
\* returned: for each its expr and the source node tensors it has so far.
InitSlow ==
  /\ pa = <<>> /\ pb = <<>> /\ pc = <<>> /\ px = NA /\ pres = NoOp
  /\ \E g \in SourceGraphs(MaxNodes) :
       heap = BuildGraph(World(<<>>, <<>>, EmptyMap, EmptyMap), g).heap
  /\ feats = <<>>
  /\ schema_msg = [feature |-> <<>>, string_domain |-> {}, int_domain |-> {},
               float_domain |-> {}]
  /\ calls = EmptyMap
  /\ first = EmptyMap
  /\ top = None
  /\ held = None
  /\ last = NoOp
  /\ nops = 0
  /\ _NEXT_ANONYMOUS_FIELD = 0
  /\ threads = << <<>> >>

SlowUnchanged == UNCHANGED <<pa, pb, pc, px, pres, heap, feats, schema_msg, calls, first, top, held, nops, _NEXT_ANONYMOUS_FIELD>>

\* The client calls calculate_value_slowly(expr).
SlowStart(expr) ==
  /\ last = NoOp
  /\ threads' = << <<[expr |-> expr, source_node_tensors |-> <<>>]>> >>
  /\ last' = [op |-> "calculate_value_slowly", expr |-> expr, trace |-> <<>>,
              returned |-> FALSE, result |-> Raise]
  /\ SlowUnchanged

SlowCall_cached ==
  /\ threads[1] # <<>>
  /\ LET stack == threads[1]
         f == stack[Len(stack)]
         srcs == get_source_expressions(heap, f.expr)
         x == srcs[Len(f.source_node_tensors) + 1]
     IN  /\ Len(f.source_node_tensors) < Len(srcs)
         /\ threads' =
              IF \E i \in 1..Len(last.trace) : last.trace[i].node = x
                THEN << [stack EXCEPT ![Len(stack)].source_node_tensors =
                           Append(@, heap[x].calculate_output)] >>
                ELSE << Append(stack, [expr |-> x, source_node_tensors |-> <<>>]) >>
  /\ UNCHANGED last
  /\ SlowUnchanged

\* The list comprehension reaches the next source x:
\* calculate_value_slowly(x, [expr], new_options) is called.
SlowCall ==
  /\ threads[1] # <<>>
  /\ LET stack == threads[1]
         f == stack[Len(stack)]
         srcs == get_source_expressions(heap, f.expr)
     IN  /\ Len(f.source_node_tensors) < Len(srcs)
         /\ threads' = << Append(stack, [expr |-> srcs[Len(f.source_node_tensors) + 1],
                                         source_node_tensors |-> <<>>]) >>
  /\ UNCHANGED last
  /\ SlowUnchanged

\* All the sources of the innermost call have returned:
\* return expr.calculate(source_node_tensors, real_dest, new_options).
\* An exception of calculate ends every call on the stack.
SlowCalculate ==
  /\ threads[1] # <<>>
  /\ LET stack == threads[1]
         f == stack[Len(stack)]
         srcs == get_source_expressions(heap, f.expr)
         r == calculate(heap, f.expr, f.source_node_tensors)
         trace == Append(last.trace,
                    [node |-> f.expr,
                     inputs |-> [j \in 1..Len(f.source_node_tensors) |->
                                   f.source_node_tensors[j].tid]])
     IN  /\ Len(f.source_node_tensors) = Len(srcs)
         /\ threads' =
              IF ~r.ok \/ Len(stack) = 1 THEN << <<>> >>
              ELSE << [SubSeq(stack, 1, Len(stack) - 1) EXCEPT
                         ![Len(stack) - 1].source_node_tensors = Append(@, r.tensor)] >>
         /\ last' = [last EXCEPT !.trace = trace,
                                 !.returned = ~r.ok \/ Len(stack) = 1,
                                 !.result = IF ~r.ok \/ Len(stack) = 1 THEN r ELSE @]
  /\ SlowUnchanged

NextSlow ==
  \/ \E expr \in 1..Len(heap) : SlowStart(expr)
  \/ SlowCall
  \/ SlowCalculate

SpecSlow == InitSlow /\ [][NextSlow]_vars

\* The evaluation is one synchronous call: once started it runs on.
SpecSlowLive == SpecSlow /\ WF_vars(NextSlow)

\* The number of source chains from expr down to node.
RECURSIVE Chains(_, _, _)
Chains(h, expr, node) ==
  IF expr = node THEN 1
  ELSE LET srcs == get_source_expressions(h, expr)
           RECURSIVE Sum(_)
           Sum(j) == IF j = 0 THEN 0 ELSE Chains(h, srcs[j], node) + Sum(j - 1)
       IN  Sum(Len(srcs))

\* calculate is invoked on a node with the node tensors of its sources, in
\* the order of get_source_expressions(), each returned by an earlier calculate.
SlowOrdered ==
  last.op = "calculate_value_slowly" =>
    \A i \in 1..Len(last.trace) :
      LET srcs == get_source_expressions(heap, last.trace[i].node)
      IN  /\ Len(last.trace[i].inputs) = Len(srcs)
          /\ \A j \in 1..Len(srcs) :
               /\ last.trace[i].inputs[j] = heap[srcs[j]].calculate_output.tid
               /\ \E k \in 1..(i - 1) : last.trace[k].node = srcs[j]

\* Nothing is cached: a node is calculated once per source chain.
SlowNoCaching ==
  (last.op = "calculate_value_slowly" /\ last.returned) =>
    /\ last.result.ok
    /\ last.result.tensor = heap[last.expr].calculate_output
    /\ \A n \in 1..Len(heap) :
         Cardinality({i \in 1..Len(last.trace) : last.trace[i].node = n})
           = Chains(heap, last.expr, n)

\* C26: calculate_value_slowly(expr) invokes calculate on a node only after
\* calculate has returned for all the sources of that node, passes the
\* source node tensors in the order of get_source_expressions(), invokes
\* calculate on a node once per source chain from expr to the node (nothing
\* is cached), and on an acyclic source graph it returns.
SlowEvaluation ==
  /\ [](SlowOrdered /\ SlowNoCaching)
  /\ <>(last.op = "calculate_value_slowly" /\ last.returned)

\* The diamond: node 3 lists node 2 and node 1, node 2 lists node 1, so
\* node 1 is reached along two chains and calculated twice.
SlowEvaluationWitness ==
  /\ last.op = "calculate_value_slowly"
  /\ last.returned
  /\ last.expr = 3
  /\ heap[3].sources = <<2, 1>>
  /\ heap[2].sources = <<1>>
  /\ [i \in 1..Len(last.trace) |-> last.trace[i].node] = <<1, 2, 1, 3>>

====
